---- MODULE Spec2Model ----
(***************************************************************************)
(* A state-machine model of the samsung_daily_image repository: the retry *)
(* decorator, with_timeout, TVImageUploader.upload_image and               *)
(* set_active_art, DailyArtApp.run and main, the power script, the prompt  *)
(* generator with its calendar and weather helpers, the stored content id  *)
(* and apply_enhancement.  Every machine has its own variables and its own *)
(* specification; the variables of the machines a specification does not   *)
(* run stay at their idle values.                                          *)
(***************************************************************************)
EXTENDS Integers, Sequences, FiniteSets, TLC

VARIABLES
    \* ---- retry wrapper (upload_image.py, retry) ----
    rMax,        \* max_attempts of the decorator
    rDelay,      \* delay, a rational <<num, den>>
    rBackoff,    \* backoff_factor, a rational <<num, den>>
    rAttempts,   \* wrapper local: attempts
    rCur,        \* wrapper local: current_delay, a rational <<num, den>>
    rPc,         \* position of the wrapper
    rCalls,      \* invocations of the wrapped function so far
    rExcs,       \* the exceptions the wrapped function raised, in order
    rSleeps,     \* the durations slept, in order
    rOut,        \* how the wrapper ended
    \* ---- the content-id files ----
    fileUploadedId,\* content of last_uploaded_id.txt (None: no such file)
    fileContentId, \* content of last_content_id.txt (None: no such file)
    \* ---- TVImageUploader.set_active_art (upload_image.py) ----
    saPc,          \* position in the wrapper / body
    saContentId,   \* the content_id argument
    saHasRest,     \* the TV object has _rest_device.send_command
    saStoredId,    \* local stored_id
    saArtOk,       \* local art_mode_success
    saModeLog,     \* art-mode commands sent to the TV, in order, with outcome
    saList,        \* local content_list
    saTarget,      \* local target_id of the content-list fallback
    saWrapAttempts,\* attempts of set_active_art's own retry wrapper
    saBodyRuns,    \* executions of set_active_art's body
    saInitAttempts,\* attempts of _initialize_tv_connection's wrapper
    saSelAttempts, \* attempts of _select_image_with_retry's wrapper
    saBlind,       \* loop variable of the final resend
    saSelCalls,    \* select_image calls issued: in all, by the latest strategy, and the latest id
    saSelLog,      \* the ids of the selection commands issued, per strategy
    saStarted,     \* the strategies started, in order
    saOutcome,     \* per strategy: none, running, ok, failed, skipped
    saOk,          \* the selection commands that completed without raising
    saResult,      \* None while running, then "True" / "False" / "raised"
    \* ---- TVImageUploader.upload_image and with_timeout (upload_image.py) ----
    upPc,          \* position in the wrapper / body of upload_image
    upExists,      \* os.path.exists(image_path)
    upLarge,       \* file_size > 5 MB
    upWrapAttempts,\* attempts of upload_image's retry wrapper
    upBodyRuns,    \* executions of upload_image's body
    upAttempt,     \* local upload_attempt
    upContentId,   \* local content_id
    upCalls,       \* with_timeout calls so far (upload operations started)
    upCur,         \* the worker thread of the with_timeout call in progress (0: none)
    upRunning,     \* the worker threads that are alive
    upCells,       \* the result[0] / exception[0] cells of the live calls and threads
    upProduced,    \* what the worker of the call in progress has produced
    upLast,        \* how the latest with_timeout call ended
    upOverlap,     \* session operations the main thread did beside a live worker
    upPatched,     \* socket.socket.settimeout is the patched function
    upTvTimeout,   \* the TV object's timeout attribute
    upOut,         \* how upload_image ended
    \* ---- DailyArtApp.run (main.py) ----
    runPc,          \* position in run
    runSkipUpload,  \* argument skip_upload
    runCustomImage, \* argument custom_image
    runPreset,      \* argument enhancement_preset is truthy
    runUpscale,     \* argument upscale
    runTv,          \* the television is "up" or "down" now
    runTvEverUp,    \* the television has been up at some moment of this run
    runInitAttempts,\* attempts of _initialize_tv_connection's wrapper
    runImagePath,   \* local image_path
    runIntermediate,\* self.intermediate_files
    runContentId,   \* local content_id
    runObtained,    \* an image has been obtained (step 1 completed)
    runActive,      \* how the set_active_art calls ended, in order
    runExit,        \* the line of the return statement taken (0: none yet)
    runLog,         \* the stages run and the TV operations done, in order
    runResult,      \* None while running, then "True" / "False"
    \* ---- tv_power.py: main, turn_on, turn_off ----
    pwPc,           \* position in main / turn_on / turn_off
    pwCommand,      \* the command argument, upper case
    pwHasIp,        \* a TV IP address is configured
    pwHasWol,       \* HAS_WOL: the wakeonlan library is installed
    pwHasMac,       \* self.tv_mac is set
    pwFirstReach,   \* what the first reachability check said ("yes", "no")
    pwWolTried,     \* _wake_tv_with_wol was called
    pwWolSent,      \* a Wake-on-LAN packet was sent
    pwPolls,        \* reachability polls made after the packet
    pwPollOk,       \* the latest poll found the TV reachable
    pwConnects,     \* calls of _connect_to_tv
    pwConnected,    \* outcome of _connect_to_tv ("ok", "failed")
    pwPatched,      \* self._patch_applied
    pwSuccess,      \* success, as returned by turn_on / turn_off
    pwMessage,      \* status_message, as returned
    pwExit,         \* exit status of main (-1: none yet)
    pwResponse,     \* what art().get_artmode() gave _get_art_mode_status
    pwArt,          \* current_art_mode, as _get_art_mode_status returned it
    pwLog,          \* reachability checks made and commands sent, in order
    \* ---- generate_image.py: is_active and the ordinal suffix ----
    calPc,          \* position in _get_current_season_info
    calCfg,         \* the HolidayConfig: start_month, start_day, end_month, end_day
    calDate,        \* current_date: month, day
    calSuffix,      \* local suffix
    calIndex,       \* the index used on the suffix list (-2: no lookup)
    calActive,      \* what is_active returned
    \* ---- weather_service.py: get_current_weather ----
    wxPc,           \* position in get_current_weather
    wxCode,         \* the weather_code of the response
    wxOut,          \* what get_current_weather returned
    \* ---- the stored content id over a sequence of uploads ----
    stUploads,      \* successful uploads so far
    stLatest,       \* the content id of the most recent successful upload
    stAllWritten,   \* every file write so far succeeded
    stRead,         \* stored_id as set_active_art read it since the latest upload
    stReadOk,       \* that read did not raise
    \* ---- main.py: main ----
    appPc,          \* position in main / run
    appArgs,        \* the parsed command line: list_presets, enhance
    appEnv,         \* the environment: SAMSUNG_TV_IP and OPENAI_API_KEY are set
    appSteps,       \* the steps of run taken, in order
    appSuccess,     \* what run returned
    appExit,        \* exit status of the script (-1: none yet)
    \* ---- generate_image.py: generate_art_prompt ----
    prPc,           \* position in generate_art_prompt
    prDate,         \* current_date: month, day
    prLocation,     \* the value of WEATHER_LOCATION
    prInfo,         \* date_info: season and active holiday (0: none)
    prCoords,       \* locals lat and lon
    prLookups,      \* calls of get_current_weather
    prModifier,     \* local weather_modifier
    prScene,        \* local scene_type
    prPrompt,       \* the blocks of the prompt, in order
    \* ---- test_image_enhancement.py: apply_enhancement ----
    enPc,           \* apply_enhancement is being applied
    enParams,       \* the keyword arguments of apply_enhancement
    enInput,        \* the image as loaded
    enImage,        \* the image after the applications so far
    enCalls,        \* applications so far
    \* ---- get_weather_prompt_modifier (src/weather_service.py) ----
    mdPc,           \* position in get_weather_prompt_modifier
    mdData,         \* weather_data, the record passed in
    mdPick,         \* the entry random.choice draws
    mdOut,          \* the modifier returned: its list and entry
    \* ---- one upload attempt and its timeouts (upload_image.py) ----
    dlPc,           \* position in the upload attempt
    dlMiB,          \* file_size, in MiB
    dlRate,         \* seconds the TV takes per MiB
    dlClosed,       \* _patient_upload closed a connection first
    dlDynamic,      \* dynamic_timeout
    dlHard,         \* hard_timeout
    dlNeeds,        \* seconds the worker thread needs
    dlOutcome,      \* how with_timeout ended
    \* ---- the settimeout patch (upload_image.py, tv_power.py, tv_utils.py) ----
    ptStack,        \* the patching operations in progress, the innermost last
    ptSettimeout,   \* socket.socket.settimeout: the patches around the library function
    ptTvTimeout,    \* the TV object's timeout attribute
    ptApplied,      \* the controller's _patch_applied
    ptOriginal,     \* the controller's _original_settimeout
    ptOps,          \* patching operations started
    ptLast,         \* the operation that ended last, and how
    ptOn            \* this machine runs

retryVars == <<rMax, rDelay, rBackoff, rAttempts, rCur, rPc, rCalls, rExcs, rSleeps, rOut>>

fileVars == <<fileUploadedId, fileContentId>>

saVars == <<saPc, saContentId, saHasRest, saStoredId,
            saArtOk, saModeLog, saList, saTarget, saWrapAttempts, saBodyRuns,
            saInitAttempts, saSelAttempts, saBlind, saSelCalls, saSelLog, saStarted,
            saOutcome, saOk, saResult>>

upVars == <<upPc, upExists, upLarge, upWrapAttempts, upBodyRuns, upAttempt, upContentId,
            upCalls, upCur, upRunning, upCells, upProduced, upLast, upOverlap,
            upPatched, upTvTimeout, upOut>>

runVars == <<runPc, runSkipUpload, runCustomImage, runPreset, runUpscale, runTv,
             runTvEverUp, runInitAttempts, runImagePath, runIntermediate,
             runContentId, runObtained, runActive, runExit, runLog, runResult>>

pwVars == <<pwPc, pwCommand, pwHasIp, pwHasWol, pwHasMac, pwFirstReach, pwWolTried,
            pwWolSent, pwPolls, pwPollOk, pwConnects, pwConnected, pwPatched,
            pwSuccess, pwMessage, pwExit, pwResponse, pwArt, pwLog>>

calVars == <<calPc, calCfg, calDate, calSuffix, calIndex, calActive>>

wxVars == <<wxPc, wxCode, wxOut>>

stVars == <<stUploads, stLatest, stAllWritten, stRead, stReadOk>>

appVars == <<appPc, appArgs, appEnv, appSteps, appSuccess, appExit>>

prVars == <<prPc, prDate, prLocation, prInfo, prCoords, prLookups, prModifier, prScene, prPrompt>>

enVars == <<enPc, enParams, enInput, enImage, enCalls>>

mdVars == <<mdPc, mdData, mdPick, mdOut>>

dlVars == <<dlPc, dlMiB, dlRate, dlClosed, dlDynamic, dlHard, dlNeeds, dlOutcome>>

ptVars == <<ptStack, ptSettimeout, ptTvTimeout, ptApplied, ptOriginal, ptOps, ptLast, ptOn>>

vars == <<retryVars, fileVars, saVars, upVars, runVars, pwVars, calVars, wxVars, stVars, appVars, prVars, enVars, mdVars, dlVars, ptVars>>

\* What each machine leaves alone: the variables of the other machines.
notRetryVars == <<fileVars, saVars, upVars, runVars, pwVars, calVars, wxVars, stVars, appVars, prVars, enVars, mdVars, dlVars, ptVars>>
notSaVars == <<retryVars, upVars, runVars, pwVars, calVars, wxVars, stVars, appVars, prVars, enVars, mdVars, dlVars, ptVars>>
notUpVars == <<retryVars, saVars, runVars, pwVars, calVars, wxVars, stVars, appVars, prVars, enVars, mdVars, dlVars, ptVars>>
notRunVars == <<retryVars, saVars, upVars, pwVars, calVars, wxVars, stVars, appVars, prVars, enVars, mdVars, dlVars, ptVars>>
notPwVars == <<retryVars, saVars, upVars, runVars, calVars, wxVars, stVars, appVars, prVars, enVars, mdVars, dlVars, ptVars>>
notCalVars == <<retryVars, saVars, upVars, runVars, pwVars, wxVars, stVars, appVars, prVars, enVars, mdVars, dlVars, ptVars>>
notWxVars == <<retryVars, saVars, upVars, runVars, pwVars, calVars, stVars, appVars, prVars, enVars, mdVars, dlVars, ptVars>>
notStVars == <<retryVars, saVars, upVars, runVars, pwVars, calVars, wxVars, appVars, prVars, enVars, mdVars, dlVars, ptVars>>
notAppVars == <<retryVars, saVars, upVars, runVars, pwVars, calVars, wxVars, stVars, prVars, enVars, mdVars, dlVars, ptVars>>
notPrVars == <<retryVars, saVars, upVars, runVars, pwVars, calVars, wxVars, stVars, appVars, enVars, mdVars, dlVars, ptVars>>
notEnVars == <<retryVars, saVars, upVars, runVars, pwVars, calVars, wxVars, stVars, appVars, prVars, mdVars, dlVars, ptVars>>
notMdVars == <<retryVars, saVars, upVars, runVars, pwVars, calVars, wxVars, stVars, appVars, prVars, enVars, dlVars, ptVars>>
notDlVars == <<retryVars, saVars, upVars, runVars, pwVars, calVars, wxVars, stVars, appVars, prVars, enVars, mdVars, ptVars>>
notPtVars == <<retryVars, saVars, upVars, runVars, pwVars, calVars, wxVars, stVars, appVars, prVars, enVars, mdVars, dlVars>>

None == "None"

(***************************************************************************)
(* Exceptions.  A raised exception is modelled by its type; the types the  *)
(* decorator retries on are its default allowed_exceptions.                *)
(***************************************************************************)
AllowedExceptions == {"HttpApiError", "ConnectionError", "OSError", "TimeoutError"}

\* Exception types a TV library call can raise: one the decorator retries
\* on and one it does not (any other Exception subclass).
TvExcTypes == {"ConnectionError", "WebSocketException"}

IsAllowed(excType) == excType \in AllowedExceptions

(***************************************************************************)
(* retry: the wrapper's decision after the wrapped function raised         *)
(* excType with `attempts` failures counted so far.                        *)
(*   "propagate": not an allowed exception, leaves the wrapper at once     *)
(*   "raise":     attempts reached max_attempts, the exception is re-raised*)
(*   "sleep":     sleep current_delay, then loop                           *)
(***************************************************************************)
\* Mutant: the attempt limit is tested with > instead of >=.
M_RetryOnRaise_OffByOne(attempts, maxAttempts, excType) ==
    IF ~IsAllowed(excType)
    THEN [verdict |-> "propagate", attempts |-> attempts]
    ELSE IF attempts + 1 > maxAttempts
         THEN [verdict |-> "raise", attempts |-> attempts + 1]
         ELSE [verdict |-> "sleep", attempts |-> attempts + 1]

RetryOnRaise(attempts, maxAttempts, excType) ==
    IF ~IsAllowed(excType)
    THEN [verdict |-> "propagate", attempts |-> attempts]
    ELSE IF attempts + 1 >= maxAttempts
         THEN [verdict |-> "raise", attempts |-> attempts + 1]
         ELSE [verdict |-> "sleep", attempts |-> attempts + 1]

\* The while condition of the wrapper.
RetryLoopEnters(attempts, maxAttempts) == attempts < maxAttempts

\* Mutant: the delay is not multiplied by the backoff factor.
M_RatMul_NoBackoff(a, b) == a

\* current_delay *= backoff_factor, on rationals <<num, den>>.
RatMul(a, b) == <<a[1] * b[1], a[2] * b[2]>>
RatLeq(a, b) == a[1] * b[2] <= b[1] * a[2]
RatEq(a, b) == a[1] * b[2] = b[1] * a[2]

(***************************************************************************)
(* The retry wrapper run on its own, around a function whose every         *)
(* invocation returns a value or raises an exception of some type.         *)
(***************************************************************************)
MaxAttemptsBound == 4
RetryDelays == {<<1, 1>>, <<5, 1>>}
RetryBackoffs == {<<1, 2>>, <<1, 1>>, <<3, 2>>, <<2, 1>>}
RetryExcTypes == {"ConnectionError", "UploadTimeoutError"}
RetryValues == {"v1", "v2"}

InitRetry ==
    /\ rMax \in 0..MaxAttemptsBound
    /\ rDelay \in RetryDelays
    /\ rBackoff \in RetryBackoffs
    /\ rAttempts = 0
    /\ rCur = rDelay
    /\ rPc = "loop"
    /\ rCalls = 0
    /\ rExcs = <<>>
    /\ rSleeps = <<>>
    /\ rOut = [kind |-> "none", val |-> None]

IdleRetry ==
    /\ rMax = 0
    /\ rDelay = <<1, 1>>
    /\ rBackoff = <<1, 1>>
    /\ rAttempts = 0
    /\ rCur = <<1, 1>>
    /\ rPc = "idle"
    /\ rCalls = 0
    /\ rExcs = <<>>
    /\ rSleeps = <<>>
    /\ rOut = [kind |-> "none", val |-> None]

\* while attempts < max_attempts: ... ; assert False
RetryLoopTest ==
    /\ rPc = "loop"
    /\ IF RetryLoopEnters(rAttempts, rMax)
       THEN /\ rPc' = "call"
            /\ rOut' = rOut
       ELSE /\ rPc' = "ended"
            /\ rOut' = [kind |-> "assert", val |-> "AssertionError"]
    /\ UNCHANGED <<rMax, rDelay, rBackoff, rAttempts, rCur, rCalls, rExcs, rSleeps>>
    /\ UNCHANGED notRetryVars

\* return func(*args, **kwargs)
RetryFuncReturns ==
    /\ rPc = "call"
    /\ \E v \in RetryValues :
         rOut' = [kind |-> "return", val |-> <<v, rCalls + 1>>]
    /\ rCalls' = rCalls + 1
    /\ rPc' = "ended"
    /\ UNCHANGED <<rMax, rDelay, rBackoff, rAttempts, rCur, rExcs, rSleeps>>
    /\ UNCHANGED notRetryVars

\* func raised: except allowed_exceptions (or the exception passes through)
RetryFuncRaises ==
    /\ rPc = "call"
    /\ \E t \in RetryExcTypes :
         LET exc == [type |-> t, call |-> rCalls + 1]
             d == RetryOnRaise(rAttempts, rMax, t)
         IN /\ rExcs' = Append(rExcs, exc)
            /\ rAttempts' = d.attempts
            /\ IF d.verdict = "sleep"
               THEN /\ rPc' = "sleep"
                    /\ rOut' = rOut
               ELSE /\ rPc' = "ended"
                    /\ rOut' = [kind |-> "raise", val |-> exc]
    /\ rCalls' = rCalls + 1
    /\ UNCHANGED <<rMax, rDelay, rBackoff, rCur, rSleeps>>
    /\ UNCHANGED notRetryVars

\* time.sleep(current_delay); current_delay *= backoff_factor
RetrySleep ==
    /\ rPc = "sleep"
    /\ rSleeps' = Append(rSleeps, rCur)
    /\ rCur' = RatMul(rCur, rBackoff)
    /\ rPc' = "loop"
    /\ UNCHANGED <<rMax, rDelay, rBackoff, rAttempts, rCalls, rExcs, rOut>>
    /\ UNCHANGED notRetryVars

NextRetry ==
    \/ RetryLoopTest
    \/ RetryFuncReturns
    \/ RetryFuncRaises
    \/ RetrySleep


(***************************************************************************)
(* TVImageUploader.set_active_art, with the functions it calls:            *)
(* _initialize_tv_connection (retry, 5 attempts) and                       *)
(* _select_image_with_retry (retry, 15 attempts).  Every call to the TV    *)
(* is one step whose outcome (a return, or an exception of some type) the  *)
(* environment chooses.                                                    *)
(***************************************************************************)
SetActiveMaxAttempts == 10
SelectMaxAttempts == 15
InitConnMaxAttempts == 5
BlindResends == 3

MaxListLen == 2

Ids == {"idA", "idB"}
\* the content_id argument (the ids are interchangeable: one value stands for all)
PassedIds == {"idA"}
\* content_id values of the items of the TV's content list; None: an item
\* without a content_id key
ListIds == {"idA", "idB", None}
ContentLists == UNION {[1..n -> ListIds] : n \in 0..MaxListLen}
\* what the id files may hold (None: the file does not exist)
FileStates == {None, ""} \cup Ids
\* last_content_id.txt is read only when last_uploaded_id.txt does not exist
OldFileStates == {None, "idB"}

Strategies == <<"primary", "list", "rest", "stored", "blind">>
StrategySet == {Strategies[i] : i \in 1..Len(Strategies)}

\* Python truthiness of an optional string
Truthy(x) == x # None /\ x # ""

\* Mutant: last_content_id.txt is read first.
M_ReadStoredId_OldFileFirst(fileUploaded, fileContent, readFails) ==
    IF readFails THEN None
    ELSE IF fileContent # None THEN fileContent
    ELSE IF fileUploaded # None THEN fileUploaded
    ELSE None

\* stored_id as read at the top of set_active_art: last_uploaded_id.txt when
\* it exists, last_content_id.txt only otherwise; None when reading raised.
ReadStoredId(fileUploaded, fileContent, readFails) ==
    IF readFails THEN None
    ELSE IF fileUploaded # None THEN fileUploaded
    ELSE IF fileContent # None THEN fileContent
    ELSE None

InList(list, id) == \E i \in 1..Len(list) : list[i] = id

\* Mutant: the stored id is looked for before the passed id.
M_ListTarget_StoredFirst(list, contentId, storedId) ==
    IF Truthy(storedId) /\ InList(list, storedId) THEN storedId
    ELSE IF InList(list, contentId) THEN contentId
    ELSE list[1]

\* target_id of the content-list fallback: the passed id if listed, else the
\* stored id if listed, else the first item.
ListTarget(list, contentId, storedId) ==
    IF InList(list, contentId) THEN contentId
    ELSE IF Truthy(storedId) /\ InList(list, storedId) THEN storedId
    ELSE list[1]

\* The steps of the body whose TV call stands inside a try / except Exception
\* of the body itself, so that no exception of the call leaves the body.
SaTrySteps == {"reconnect", "artmode", "key1", "key2", "list0", "matte", "primary",
               "list", "listsel", "rest", "stored", "blind"}
\* Mutant: the second KEY_ART stands outside any try of the body.
M_SaCaught_SecondKeyUnguarded(step) == step \in SaTrySteps \ {"key2"}

\* Mutant: the stored-id select stands outside any try of the body.
M_SaCaught_StoredUnguarded(step) == step \in SaTrySteps \ {"stored"}

SaCaught(step) == step \in SaTrySteps

\* Approach 4 is tried only with a stored id that differs from the passed id.
StoredApplies(storedId, contentId) == Truthy(storedId) /\ storedId # contentId

\* Mutant: the stored id is tried before the direct REST select.
M_NextStrategy_StoredBeforeRest(s) ==
    CASE s = "primary" -> "list"
      [] s = "list" -> "stored"
      [] s = "stored" -> "rest"
      [] s = "rest" -> "blind"
      [] OTHER -> "done"

\* The strategy tried after strategy s has failed or has been skipped.
NextStrategy(s) ==
    CASE s = "primary" -> "list"
      [] s = "list" -> "rest"
      [] s = "rest" -> "stored"
      [] s = "stored" -> "blind"
      [] OTHER -> "done"

\* The id files as an earlier run may have left them.
InitFiles ==
    /\ fileUploadedId \in FileStates
    /\ fileContentId \in OldFileStates

IdleFiles ==
    /\ fileUploadedId = None
    /\ fileContentId = None

SaLocalsInit ==
    /\ saStoredId = None
    /\ saArtOk = FALSE
    /\ saList = <<>>
    /\ saTarget = None
    /\ saInitAttempts = 0
    /\ saSelAttempts = 0
    /\ saBlind = 0

InitSa ==
    /\ saPc = "start"
    /\ saContentId \in PassedIds
    /\ saHasRest \in BOOLEAN
    /\ SaLocalsInit
    /\ saModeLog = <<>>
    /\ saWrapAttempts = 0
    /\ saBodyRuns = 0
    /\ saSelCalls = [total |-> 0, strategy |-> None, n |-> 0, id |-> None]
    /\ saSelLog = [s \in StrategySet |-> {}]
    /\ saStarted = <<>>
    /\ saOutcome = [s \in StrategySet |-> "none"]
    /\ saOk = {}
    /\ saResult = None

IdleSa ==
    /\ saPc = "idle"
    /\ saContentId = "idA"
    /\ saHasRest = FALSE
    /\ SaLocalsInit
    /\ saModeLog = <<>>
    /\ saWrapAttempts = 0
    /\ saBodyRuns = 0
    /\ saSelCalls = [total |-> 0, strategy |-> None, n |-> 0, id |-> None]
    /\ saSelLog = [s \in StrategySet |-> {}]
    /\ saStarted = <<>>
    /\ saOutcome = [s \in StrategySet |-> "none"]
    /\ saOk = {}
    /\ saResult = None

saInputs == <<saContentId, fileUploadedId, fileContentId, saHasRest>>
saLocals == <<saStoredId, saArtOk, saList, saTarget, saInitAttempts, saSelAttempts, saBlind>>
saHistory == <<saModeLog, saSelCalls, saSelLog, saStarted, saOutcome, saOk>>

\* An exception of type t leaves the body: set_active_art's own wrapper
\* (retry, 10 attempts) sleeps and runs the body again, or re-raises.
SaEscape(t) ==
    LET d == RetryOnRaise(saWrapAttempts, SetActiveMaxAttempts, t)
    IN /\ saWrapAttempts' = d.attempts
       /\ IF d.verdict = "sleep"
          THEN /\ saPc' = "start"
               /\ saResult' = saResult
          ELSE /\ saPc' = "done"
               /\ saResult' = "raised"
       /\ saStoredId' = None
       /\ saArtOk' = FALSE
       /\ saList' = <<>>
       /\ saTarget' = None
       /\ saInitAttempts' = 0
       /\ saSelAttempts' = 0
       /\ saBlind' = 0

\* A call of `step` raised t: the body's own handler `handled` takes over when
\* the call stands inside a try of the body, otherwise t leaves the body.
SaOnException(step, t, handled) ==
    IF SaCaught(step) THEN handled ELSE SaEscape(t)

\* The body goes on at position pc with its locals as they are.
SaGoto(pc) ==
    /\ saPc' = pc
    /\ UNCHANGED <<saResult, saWrapAttempts, saLocals>>

\* The body goes on at position pc after a call of _select_image_with_retry
\* has ended: the attempts of that call are gone.
SaAfterSelect(pc) ==
    /\ saPc' = pc
    /\ saSelAttempts' = 0
    /\ UNCHANGED <<saResult, saWrapAttempts, saStoredId, saArtOk, saList, saTarget,
                   saInitAttempts, saBlind>>

\* return True / return False from the body: the wrapper returns the value.
SaReturn(value) ==
    /\ saPc' = "done"
    /\ saResult' = value
    /\ UNCHANGED <<saWrapAttempts, saLocals>>

\* saStarted once strategy s has issued its first call.
StartedWith(s) == IF saOutcome[s] = "none" THEN Append(saStarted, s) ELSE saStarted

\* stored_id is read from the id files (lines 701-718)
SaReadStored ==
    /\ saPc = "start"
    /\ \E readFails \in BOOLEAN :
         saStoredId' = ReadStoredId(fileUploadedId, fileContentId, readFails)
    /\ saBodyRuns' = saBodyRuns + 1
    /\ saPc' = "avail"
    /\ UNCHANGED <<saInputs, saArtOk, saList, saTarget, saInitAttempts, saSelAttempts,
                   saBlind, saWrapAttempts, saHistory, saResult>>
    /\ UNCHANGED notSaVars

\* is_tv_available() (it catches every exception itself)
SaAvailable ==
    /\ saPc = "avail"
    /\ \E up \in BOOLEAN :
         saPc' = IF up THEN "artmode" ELSE "reconnect"
    /\ UNCHANGED <<saInputs, saLocals, saWrapAttempts, saBodyRuns, saHistory, saResult>>
    /\ UNCHANGED notSaVars

\* one execution of _initialize_tv_connection's body that succeeds
SaReconnectOk ==
    /\ saPc = "reconnect"
    /\ saPc' = "artmode"
    /\ saInitAttempts' = 0
    /\ UNCHANGED <<saStoredId, saArtOk, saList, saTarget, saSelAttempts, saBlind>>
    /\ UNCHANGED <<saInputs, saWrapAttempts, saBodyRuns, saHistory, saResult>>
    /\ UNCHANGED notSaVars

\* one execution of _initialize_tv_connection's body that raises: the TV is
\* unreachable (ConnectionError) or SamsungTVWS() raised
SaReconnectFails ==
    /\ saPc = "reconnect"
    /\ \E t \in TvExcTypes :
         LET d == RetryOnRaise(saInitAttempts, InitConnMaxAttempts, t)
         IN IF d.verdict = "sleep"
            THEN /\ saInitAttempts' = d.attempts
                 /\ UNCHANGED <<saPc, saResult, saWrapAttempts, saStoredId, saArtOk,
                                saList, saTarget, saSelAttempts, saBlind>>
            ELSE SaOnException("reconnect", t, SaReturn("False"))
    /\ UNCHANGED <<saInputs, saBodyRuns, saHistory>>
    /\ UNCHANGED notSaVars


\* Method 1: get_artmode, then set_artmode(True) unless already in art mode
SaArtMode ==
    /\ saPc = "artmode"
    /\ \E cur \in {"on", "off", "raises"}, setOk \in BOOLEAN :
         IF cur = "on"
         THEN /\ saArtOk' = TRUE
              /\ saPc' = "list0"
              /\ UNCHANGED <<saModeLog, saResult, saWrapAttempts, saStoredId, saList,
                             saTarget, saInitAttempts, saSelAttempts, saBlind>>
         ELSE /\ saModeLog' = Append(saModeLog, [cmd |-> "set_artmode", ok |-> setOk])
              /\ IF setOk
                 THEN /\ saArtOk' = TRUE
                      /\ saPc' = "list0"
                      /\ UNCHANGED <<saResult, saWrapAttempts, saStoredId, saList,
                                     saTarget, saInitAttempts, saSelAttempts, saBlind>>
                 ELSE \E t \in TvExcTypes : SaOnException("artmode", t, SaGoto("key1"))
    /\ UNCHANGED <<saInputs, saBodyRuns, saSelCalls, saSelLog, saStarted, saOutcome, saOk>>
    /\ UNCHANGED notSaVars

\* Method 2 and Method 3: send_key("KEY_ART"), the second only if the first raised
SaKeyArt ==
    /\ saPc \in {"key1", "key2"}
    /\ \E ok \in BOOLEAN :
         /\ saModeLog' = Append(saModeLog, [cmd |-> "KEY_ART", ok |-> ok])
         /\ IF ok
            THEN /\ saArtOk' = TRUE
                 /\ saPc' = "list0"
                 /\ UNCHANGED <<saResult, saWrapAttempts, saStoredId, saList,
                                saTarget, saInitAttempts, saSelAttempts, saBlind>>
            ELSE \E t \in TvExcTypes :
                   SaOnException(saPc, t, SaGoto(IF saPc = "key1" THEN "key2" ELSE "list0"))
    /\ UNCHANGED <<saInputs, saBodyRuns, saSelCalls, saSelLog, saStarted, saOutcome, saOk>>
    /\ UNCHANGED notSaVars

\* the early content-list fetch (lines 787-811): content_list stays [] when it raises
SaEarlyList ==
    /\ saPc = "list0"
    /\ \/ \E l \in ContentLists :
            /\ saList' = l
            /\ saPc' = "matte"
            /\ UNCHANGED <<saResult, saWrapAttempts, saStoredId, saArtOk, saTarget,
                           saInitAttempts, saSelAttempts, saBlind>>
       \/ \E t \in TvExcTypes : SaOnException("list0", t, SaGoto("matte"))
    /\ UNCHANGED <<saInputs, saBodyRuns, saHistory>>
    /\ UNCHANGED notSaVars

\* change_matte(content_id, 'none') and the 15 s wait (lines 813-826)
SaMatte ==
    /\ saPc = "matte"
    /\ \/ SaGoto("primary")
       \/ \E t \in TvExcTypes : SaOnException("matte", t, SaGoto("primary"))
    /\ UNCHANGED <<saInputs, saBodyRuns, saHistory>>
    /\ UNCHANGED notSaVars

\* A select_image(id) call of strategy s is issued.
SaIssue(s, id) ==
    /\ saSelCalls' = [total |-> saSelCalls.total + 1, strategy |-> s,
                      n |-> IF saSelCalls.strategy = s THEN saSelCalls.n + 1 ELSE 1,
                      id |-> id]
    /\ saSelLog' = [saSelLog EXCEPT ![s] = @ \cup {id}]
    /\ saStarted' = StartedWith(s)

\* Approach 1: one execution of _select_image_with_retry(content_id) whose
\* select_image call returns
SaPrimarySelectOk ==
    /\ saPc = "primary"
    /\ SaIssue("primary", saContentId)
    /\ saOk' = saOk \cup {[strategy |-> "primary", id |-> saContentId]}
    /\ saOutcome' = [saOutcome EXCEPT !["primary"] = "ok"]
    /\ SaReturn("True")
    /\ UNCHANGED <<saInputs, saBodyRuns, saModeLog>>
    /\ UNCHANGED notSaVars

\* Approach 1: one execution of _select_image_with_retry(content_id) whose
\* select_image call raises
SaPrimarySelectFails ==
    /\ saPc = "primary"
    /\ SaIssue("primary", saContentId)
    /\ \E t \in TvExcTypes :
         LET d == RetryOnRaise(saSelAttempts, SelectMaxAttempts, t)
         IN IF d.verdict = "sleep"
            THEN /\ saSelAttempts' = d.attempts
                 /\ saOutcome' = [saOutcome EXCEPT !["primary"] = "running"]
                 /\ UNCHANGED <<saPc, saResult, saWrapAttempts, saStoredId, saArtOk,
                                saList, saTarget, saInitAttempts, saBlind>>
            ELSE /\ saOutcome' = [saOutcome EXCEPT !["primary"] = "failed"]
                 /\ SaOnException("primary", t, SaAfterSelect(NextStrategy("primary")))
    /\ UNCHANGED <<saInputs, saBodyRuns, saModeLog, saOk>>
    /\ UNCHANGED notSaVars


\* Approach 2, when content_list is still empty and fetching it raises
SaListFetchFails ==
    /\ saPc = "list"
    /\ saList = <<>>
    /\ saStarted' = StartedWith("list")
    /\ saOutcome' = [saOutcome EXCEPT !["list"] = "failed"]
    /\ \E t \in TvExcTypes : SaOnException("list", t, SaGoto(NextStrategy("list")))
    /\ UNCHANGED <<saInputs, saBodyRuns, saModeLog, saSelCalls, saSelLog, saOk>>
    /\ UNCHANGED notSaVars

\* Approach 2: the list is fetched if still empty, the target is chosen and
\* its matte removed (lines 866-917); without a target the approach is over
SaListLookup ==
    /\ saPc = "list"
    /\ saStarted' = StartedWith("list")
    /\ \E l \in (IF saList = <<>> THEN ContentLists ELSE {saList}) :
         LET target == IF l = <<>> THEN None ELSE ListTarget(l, saContentId, saStoredId)
         IN /\ saList' = l
            /\ saTarget' = target
            /\ saSelAttempts' = 0
            /\ IF Truthy(target)
               THEN /\ saPc' = "listsel"
                    /\ saOutcome' = [saOutcome EXCEPT !["list"] = "running"]
               ELSE /\ saPc' = NextStrategy("list")
                    /\ saOutcome' = [saOutcome EXCEPT !["list"] = "failed"]
    /\ UNCHANGED <<saResult, saWrapAttempts, saStoredId, saArtOk, saInitAttempts, saBlind>>
    /\ UNCHANGED <<saInputs, saBodyRuns, saModeLog, saSelCalls, saSelLog, saOk>>
    /\ UNCHANGED notSaVars

\* Approach 2: one execution of _select_image_with_retry(target_id) that returns
SaListSelectOk ==
    /\ saPc = "listsel"
    /\ SaIssue("list", saTarget)
    /\ saOk' = saOk \cup {[strategy |-> "list", id |-> saTarget]}
    /\ saOutcome' = [saOutcome EXCEPT !["list"] = "ok"]
    /\ SaReturn("True")
    /\ UNCHANGED <<saInputs, saBodyRuns, saModeLog>>
    /\ UNCHANGED notSaVars

\* Approach 2: one execution of _select_image_with_retry(target_id) that raises
SaListSelectFails ==
    /\ saPc = "listsel"
    /\ SaIssue("list", saTarget)
    /\ \E t \in TvExcTypes :
         LET d == RetryOnRaise(saSelAttempts, SelectMaxAttempts, t)
         IN IF d.verdict = "sleep"
            THEN /\ saSelAttempts' = d.attempts
                 /\ saOutcome' = saOutcome
                 /\ UNCHANGED <<saPc, saResult, saWrapAttempts, saStoredId, saArtOk,
                                saList, saTarget, saInitAttempts, saBlind>>
            ELSE /\ saOutcome' = [saOutcome EXCEPT !["list"] = "failed"]
                 /\ SaOnException("listsel", t, SaAfterSelect(NextStrategy("list")))
    /\ UNCHANGED <<saInputs, saBodyRuns, saModeLog, saOk>>
    /\ UNCHANGED notSaVars

\* Approach 3 is passed over: the TV object has no _rest_device.send_command
SaRestSkipped ==
    /\ saPc = "rest"
    /\ ~saHasRest
    /\ saOutcome' = [saOutcome EXCEPT !["rest"] = "skipped"]
    /\ SaGoto(NextStrategy("rest"))
    /\ UNCHANGED <<saInputs, saBodyRuns, saModeLog, saSelCalls, saSelLog, saStarted, saOk>>
    /\ UNCHANGED notSaVars

\* Approach 3: _rest_device.send_command('art/select', ...) returns
SaRestOk ==
    /\ saPc = "rest"
    /\ saHasRest
    /\ saStarted' = StartedWith("rest")
    /\ saSelLog' = [saSelLog EXCEPT !["rest"] = @ \cup {saContentId}]
    /\ saOk' = saOk \cup {[strategy |-> "rest", id |-> saContentId]}
    /\ saOutcome' = [saOutcome EXCEPT !["rest"] = "ok"]
    /\ SaReturn("True")
    /\ UNCHANGED <<saInputs, saBodyRuns, saModeLog, saSelCalls>>
    /\ UNCHANGED notSaVars

\* Approach 3: _rest_device.send_command('art/select', ...) raises
SaRestFails ==
    /\ saPc = "rest"
    /\ saHasRest
    /\ saStarted' = StartedWith("rest")
    /\ saSelLog' = [saSelLog EXCEPT !["rest"] = @ \cup {saContentId}]
    /\ saOutcome' = [saOutcome EXCEPT !["rest"] = "failed"]
    /\ \E t \in TvExcTypes : SaOnException("rest", t, SaGoto(NextStrategy("rest")))
    /\ UNCHANGED <<saInputs, saBodyRuns, saModeLog, saSelCalls, saOk>>
    /\ UNCHANGED notSaVars

\* Approach 4 is passed over: no stored id, or the stored id is the passed id
SaStoredSkipped ==
    /\ saPc = "stored"
    /\ ~StoredApplies(saStoredId, saContentId)
    /\ saOutcome' = [saOutcome EXCEPT !["stored"] = "skipped"]
    /\ SaGoto(NextStrategy("stored"))
    /\ UNCHANGED <<saInputs, saBodyRuns, saModeLog, saSelCalls, saSelLog, saStarted, saOk>>
    /\ UNCHANGED notSaVars

\* Approach 4: select_image(stored_id) returns
SaStoredSelectOk ==
    /\ saPc = "stored"
    /\ StoredApplies(saStoredId, saContentId)
    /\ SaIssue("stored", saStoredId)
    /\ saOk' = saOk \cup {[strategy |-> "stored", id |-> saStoredId]}
    /\ saOutcome' = [saOutcome EXCEPT !["stored"] = "ok"]
    /\ SaReturn("True")
    /\ UNCHANGED <<saInputs, saBodyRuns, saModeLog>>
    /\ UNCHANGED notSaVars

\* Approach 4: select_image(stored_id) raises
SaStoredSelectFails ==
    /\ saPc = "stored"
    /\ StoredApplies(saStoredId, saContentId)
    /\ SaIssue("stored", saStoredId)
    /\ saOutcome' = [saOutcome EXCEPT !["stored"] = "failed"]
    /\ \E t \in TvExcTypes : SaOnException("stored", t, SaGoto(NextStrategy("stored")))
    /\ UNCHANGED <<saInputs, saBodyRuns, saModeLog, saOk>>
    /\ UNCHANGED notSaVars

\* The body after iteration `done` of the final resend loop: the next
\* iteration, or "All methods to set active art failed" and return False.
SaBlindNext(done) ==
    IF done >= BlindResends
    THEN /\ saPc' = "done"
         /\ saResult' = "False"
    ELSE /\ saPc' = "blind"
         /\ saResult' = saResult

\* Final attempt: one select_image(content_id) of the resend loop returns
SaBlindSelectOk ==
    /\ saPc = "blind"
    /\ SaIssue("blind", saContentId)
    /\ saOk' = saOk \cup {[strategy |-> "blind", id |-> saContentId]}
    /\ saOutcome' = [saOutcome EXCEPT !["blind"] = "ok"]
    /\ saBlind' = saBlind + 1
    /\ SaBlindNext(saBlind + 1)
    /\ UNCHANGED <<saWrapAttempts, saStoredId, saArtOk, saList, saTarget,
                   saInitAttempts, saSelAttempts>>
    /\ UNCHANGED <<saInputs, saBodyRuns, saModeLog>>
    /\ UNCHANGED notSaVars

\* Final attempt: one select_image(content_id) of the resend loop raises
SaBlindSelectFails ==
    /\ saPc = "blind"
    /\ SaIssue("blind", saContentId)
    /\ saOutcome' = [saOutcome EXCEPT !["blind"] =
                        IF @ = "ok" THEN "ok"
                        ELSE IF saBlind + 1 >= BlindResends THEN "failed" ELSE "running"]
    /\ \E t \in TvExcTypes :
         SaOnException("blind", t,
            /\ saBlind' = saBlind + 1
            /\ SaBlindNext(saBlind + 1)
            /\ UNCHANGED <<saWrapAttempts, saStoredId, saArtOk, saList, saTarget,
                           saInitAttempts, saSelAttempts>>)
    /\ UNCHANGED <<saInputs, saBodyRuns, saModeLog, saOk>>
    /\ UNCHANGED notSaVars

NextSa ==
    \/ SaReadStored
    \/ SaAvailable
    \/ SaReconnectOk
    \/ SaReconnectFails
    \/ SaArtMode
    \/ SaKeyArt
    \/ SaEarlyList
    \/ SaMatte
    \/ SaPrimarySelectOk
    \/ SaPrimarySelectFails
    \/ SaListFetchFails
    \/ SaListLookup
    \/ SaListSelectOk
    \/ SaListSelectFails
    \/ SaRestSkipped
    \/ SaRestOk
    \/ SaRestFails
    \/ SaStoredSkipped
    \/ SaStoredSelectOk
    \/ SaStoredSelectFails
    \/ SaBlindSelectOk
    \/ SaBlindSelectFails

(***************************************************************************)
(* with_timeout and TVImageUploader.upload_image.                          *)
(*                                                                         *)
(* with_timeout starts a daemon thread that runs f and stores what f       *)
(* returns or raises in the call's own result / exception cell; the main   *)
(* thread joins it with a timeout and then tests is_alive().  A thread     *)
(* that is alive at that test is left running.  Threads and cells are      *)
(* numbered with the smallest number no live thread uses.                  *)
(***************************************************************************)
UploadMaxAttempts == 8
MaxUploadAttempts == 3

\* At most this many abandoned worker threads are alive at once.
MaxAbandoned == 2

WorkerIds == 1..(MaxAbandoned + 1)

\* What f returns: the standard upload returns the new content id; the
\* patient upload may also return None, or the first id of the TV's list.
UploadResults(large) == IF large THEN {"idNew", "idOld", None} ELSE {"idNew"}

\* What f raises, as [type, conflict]: the standard upload raises library
\* exceptions, some of them device conflicts; the patient upload catches all.
UploadExceptions(large) ==
    IF large THEN {} ELSE [type : TvExcTypes, conflict : BOOLEAN]

\* result = [None] and exception = [None]: nothing stored yet (by: the thread
\* that stored the value, 0 for none)
NoResult == [id |-> None, by |-> 0]
NoException == [type |-> None, conflict |-> FALSE, by |-> 0]
EmptyCell == [result |-> NoResult, exception |-> NoException]

\* Mutant: result and exception are one pair of lists shared by all calls.
M_CellOf_Shared(worker) == 1

\* The cell a with_timeout call and its thread share: the lists result and
\* exception are created by the call, one pair per call.
CellOf(worker) == worker

FreeWorkerId(running) == CHOOSE w \in WorkerIds : w \notin running /\ \A v \in WorkerIds : v < w => v \in running

\* The cells some live thread or the call in progress still refers to.
LiveCells(running, cur) == {CellOf(w) : w \in running \cup (IF cur = 0 THEN {} ELSE {cur})}

\* with_timeout after the join: alive -> UploadTimeoutError; else the stored
\* exception is raised if there is one; else the stored result is returned.
WithTimeoutOutcome(alive, cell) ==
    IF alive THEN [kind |-> "timeout", val |-> "UploadTimeoutError"]
    ELSE IF cell.exception.type # None THEN [kind |-> "exc", val |-> cell.exception]
    ELSE [kind |-> "result", val |-> cell.result]

\* is_device_conflict_error(e)
IsDeviceConflict(exc) == exc.conflict

NoProduced == [kind |-> "none", val |-> NoResult]
NoLast == [kind |-> None, val |-> NoResult, worker |-> 0, alive |-> FALSE,
           produced |-> NoProduced]

UpLocalsInit ==
    /\ upAttempt = 0
    /\ upContentId = None
    /\ upCur = 0
    /\ upProduced = NoProduced

InitUp ==
    /\ upPc = "start"
    /\ upExists \in BOOLEAN
    /\ upLarge \in BOOLEAN
    /\ upWrapAttempts = 0
    /\ upBodyRuns = 0
    /\ UpLocalsInit
    /\ upCalls = 0
    /\ upRunning = {}
    /\ upCells = <<>>
    /\ upLast = NoLast
    /\ upOverlap = {}
    /\ upPatched = FALSE
    /\ upTvTimeout = "original"
    /\ upOut = [kind |-> "none", val |-> None]

IdleUp ==
    /\ upPc = "idle"
    /\ upExists = FALSE
    /\ upLarge = FALSE
    /\ upWrapAttempts = 0
    /\ upBodyRuns = 0
    /\ UpLocalsInit
    /\ upCalls = 0
    /\ upRunning = {}
    /\ upCells = <<>>
    /\ upLast = NoLast
    /\ upOverlap = {}
    /\ upPatched = FALSE
    /\ upTvTimeout = "original"
    /\ upOut = [kind |-> "none", val |-> None]

upInputs == <<upExists, upLarge>>
upThreads == <<upRunning, upCells, upProduced>>

\* The main thread does session operation op (closing self.tv._connection,
\* starting an upload on self.tv): noted when a worker thread is alive.
Overlap(op, running) == IF running # {} THEN upOverlap \cup {op} ELSE upOverlap

\* An exception of type excType leaves the body of upload_image: the finally
\* block restores the timeouts, the except block logs and re-raises, and the
\* retry wrapper (8 attempts) sleeps and runs the body again, or lets it out.
UpRaise(excType) ==
    LET d == RetryOnRaise(upWrapAttempts, UploadMaxAttempts, excType)
    IN /\ upPatched' = FALSE
       /\ upTvTimeout' = "original"
       /\ upWrapAttempts' = d.attempts
       /\ upAttempt' = 0
       /\ upContentId' = None
       /\ upCur' = 0
       /\ IF d.verdict = "sleep"
          THEN /\ upPc' = "start"
               /\ upOut' = upOut
          ELSE /\ upPc' = "ended"
               /\ upOut' = [kind |-> "raise", val |-> excType]

\* The body starts: a missing file ends the call with None (lines 384-386)
UpStartMissing ==
    /\ upPc = "start"
    /\ ~upExists
    /\ upBodyRuns' = upBodyRuns + 1
    /\ upPc' = "ended"
    /\ upOut' = [kind |-> "return", val |-> None]
    /\ UNCHANGED <<upInputs, upWrapAttempts, upAttempt, upContentId, upCalls, upCur,
                   upThreads, upLast, upOverlap, upPatched, upTvTimeout>>
    /\ UNCHANGED <<fileVars, notUpVars>>

\* The body starts: the timeouts are raised, socket.settimeout is patched and
\* the connection is closed (lines 413-470)
UpSetup ==
    /\ upPc = "start"
    /\ upExists
    /\ upBodyRuns' = upBodyRuns + 1
    /\ upOverlap' = Overlap("close", upRunning)
    /\ upCells' = upCells
    /\ upRunning' = upRunning
    /\ upProduced' = NoProduced
    /\ \/ /\ upPc' = "loop"
          /\ upPatched' = TRUE
          /\ upTvTimeout' = "dynamic"
          /\ upAttempt' = 0
          /\ upContentId' = None
          /\ upCur' = 0
          /\ UNCHANGED <<upWrapAttempts, upOut>>
       \/ \E t \in TvExcTypes : UpRaise(t)
    /\ UNCHANGED <<upInputs, upCalls, upLast>>
    /\ UNCHANGED <<fileVars, notUpVars>>


\* The cells after worker w has stored `field` = val in its cell and ended.
CellsAfterStore(w, field, val, running, cur) ==
    [c \in LiveCells(running, cur) |->
        IF c = CellOf(w)
        THEN IF field = "result"
             THEN [result |-> val, exception |-> upCells[c].exception]
             ELSE [result |-> upCells[c].result, exception |-> val]
        ELSE upCells[c]]

\* The cells once the call in progress is over (or has started, with a new cell).
CellsOf(running, cur, fresh) ==
    [c \in LiveCells(running, cur) |->
        IF c \in fresh \/ c \notin DOMAIN upCells THEN EmptyCell ELSE upCells[c]]

\* Mutant: the loop admits one attempt more.
M_AttemptDue_OneMore(attempt, contentId) ==
    attempt <= MaxUploadAttempts /\ contentId = None

\* the condition of the while loop of line 472
AttemptDue(attempt, contentId) ==
    attempt < MaxUploadAttempts /\ contentId = None

\* while upload_attempt < max_upload_attempts and content_id is None:
\* the next attempt calls with_timeout, which starts a worker thread on f
UpAttemptStart ==
    /\ upPc = "loop"
    /\ AttemptDue(upAttempt, upContentId)
    /\ LET w == FreeWorkerId(upRunning)
       IN /\ upCur' = w
          /\ upRunning' = upRunning \cup {w}
          /\ upCells' = CellsOf(upRunning \cup {w}, w, {CellOf(w)})
    /\ upOverlap' = Overlap("spawn", upRunning)
    /\ upProduced' = NoProduced
    /\ upAttempt' = upAttempt + 1
    /\ upCalls' = upCalls + 1
    /\ upPc' = "join"
    /\ UNCHANGED <<upInputs, upWrapAttempts, upBodyRuns, upContentId, upLast,
                   upPatched, upTvTimeout, upOut>>
    /\ UNCHANGED <<fileVars, notUpVars>>

\* A worker thread: f returns, result[0] is stored, the thread ends
WtWorkerReturns ==
    /\ \E w \in upRunning, v \in UploadResults(upLarge) :
         LET val == [id |-> v, by |-> w]
         IN /\ upRunning' = upRunning \ {w}
            /\ upCells' = CellsAfterStore(w, "result", val, upRunning \ {w}, upCur)
            /\ upProduced' = IF w = upCur THEN [kind |-> "return", val |-> val]
                             ELSE upProduced
    /\ UNCHANGED <<upPc, upInputs, upWrapAttempts, upBodyRuns, upAttempt, upContentId,
                   upCalls, upCur, upLast, upOverlap, upPatched, upTvTimeout, upOut>>
    /\ UNCHANGED <<fileVars, notUpVars>>

\* A worker thread: f raises, exception[0] is stored, the thread ends
WtWorkerRaises ==
    /\ \E w \in upRunning, e \in UploadExceptions(upLarge) :
         LET val == [type |-> e.type, conflict |-> e.conflict, by |-> w]
         IN /\ upRunning' = upRunning \ {w}
            /\ upCells' = CellsAfterStore(w, "exception", val, upRunning \ {w}, upCur)
            /\ upProduced' = IF w = upCur THEN [kind |-> "raise", val |-> val]
                             ELSE upProduced
    /\ UNCHANGED <<upPc, upInputs, upWrapAttempts, upBodyRuns, upAttempt, upContentId,
                   upCalls, upCur, upLast, upOverlap, upPatched, upTvTimeout, upOut>>
    /\ UNCHANGED <<fileVars, notUpVars>>

\* The outcome of the with_timeout call in progress, were the join over now.
JoinOutcome == WithTimeoutOutcome(upCur \in upRunning, upCells[CellOf(upCur)])

LastOf(o) ==
    [kind |-> o.kind, val |-> o.val, worker |-> upCur, alive |-> upCur \in upRunning,
     produced |-> upProduced]

\* with_timeout returns result[0]: content_id is set, a truthy one ends the loop
UpJoinResult ==
    /\ upPc = "join"
    /\ JoinOutcome.kind = "result"
    /\ upLast' = LastOf(JoinOutcome)
    /\ upContentId' = JoinOutcome.val.id
    /\ upCur' = 0
    /\ upCells' = CellsOf(upRunning, 0, {})
    /\ upProduced' = NoProduced
    /\ upPc' = "loop"
    /\ UNCHANGED <<upInputs, upWrapAttempts, upBodyRuns, upAttempt, upCalls, upRunning,
                   upOverlap, upPatched, upTvTimeout, upOut>>
    /\ UNCHANGED <<fileVars, notUpVars>>

\* with_timeout re-raises exception[0]: a device conflict before the last
\* attempt waits and continues, anything else leaves the body (lines 523-532)
UpJoinException ==
    /\ upPc = "join"
    /\ JoinOutcome.kind = "exc"
    /\ upLast' = LastOf(JoinOutcome)
    /\ upCells' = CellsOf(upRunning, 0, {})
    /\ upProduced' = NoProduced
    /\ IF IsDeviceConflict(JoinOutcome.val) /\ upAttempt < MaxUploadAttempts
       THEN /\ upPc' = "loop"
            /\ upCur' = 0
            /\ UNCHANGED <<upWrapAttempts, upAttempt, upContentId, upPatched,
                           upTvTimeout, upOut>>
       ELSE UpRaise(JoinOutcome.val.type)
    /\ UNCHANGED <<upInputs, upBodyRuns, upCalls, upRunning, upOverlap>>
    /\ UNCHANGED <<fileVars, notUpVars>>

\* with_timeout finds the thread alive and raises UploadTimeoutError; the
\* thread runs on.  Before the last attempt the body waits 5 s and goes on to
\* reset the connection, on the last attempt it re-raises (lines 500-521)
UpJoinTimeout ==
    /\ upPc = "join"
    /\ JoinOutcome.kind = "timeout"
    /\ Cardinality(upRunning) <= MaxAbandoned
    /\ upLast' = LastOf(JoinOutcome)
    /\ upCells' = CellsOf(upRunning, 0, {})
    /\ upProduced' = NoProduced
    /\ IF upAttempt < MaxUploadAttempts
       THEN /\ upPc' = "reset"
            /\ upCur' = 0
            /\ UNCHANGED <<upWrapAttempts, upAttempt, upContentId, upPatched,
                           upTvTimeout, upOut>>
       ELSE UpRaise(JoinOutcome.val)
    /\ UNCHANGED <<upInputs, upBodyRuns, upCalls, upRunning, upOverlap>>
    /\ UNCHANGED <<fileVars, notUpVars>>

\* "Reset connection for next attempt": self.tv._connection is closed and
\* set to None by the main thread (lines 509-517)
UpReset ==
    /\ upPc = "reset"
    /\ upOverlap' = Overlap("reset", upRunning)
    /\ upPc' = "loop"
    /\ UNCHANGED <<upInputs, upWrapAttempts, upBodyRuns, upAttempt, upContentId, upCalls,
                   upCur, upThreads, upLast, upPatched, upTvTimeout, upOut>>
    /\ UNCHANGED <<fileVars, notUpVars>>

\* The loop is over without a content id: "No content ID returned after all
\* attempts" is raised, a plain Exception (lines 534-535)
UpNoContentId ==
    /\ upPc = "loop"
    /\ upAttempt >= MaxUploadAttempts
    /\ upContentId = None
    /\ UpRaise("Exception")
    /\ UNCHANGED <<upInputs, upBodyRuns, upCalls, upThreads, upLast, upOverlap>>
    /\ UNCHANGED <<fileVars, notUpVars>>

\* The loop is over with a content id: the timeouts are restored, the id is
\* written to both id files (a failing write is logged only) and returned
UpSuccess ==
    /\ upPc = "loop"
    /\ upContentId # None
    /\ upPatched' = FALSE
    /\ upTvTimeout' = "original"
    /\ \E written \in 0..2 :
         /\ fileUploadedId' = IF written >= 1 THEN upContentId ELSE fileUploadedId
         /\ fileContentId' = IF written >= 2 THEN upContentId ELSE fileContentId
    /\ upPc' = "ended"
    /\ upOut' = [kind |-> "return", val |-> upContentId]
    /\ UNCHANGED <<upInputs, upWrapAttempts, upBodyRuns, upAttempt, upContentId, upCalls,
                   upCur, upThreads, upLast, upOverlap>>
    /\ UNCHANGED notUpVars

NextUp ==
    \/ UpStartMissing
    \/ UpSetup
    \/ UpAttemptStart
    \/ WtWorkerReturns
    \/ WtWorkerRaises
    \/ UpJoinResult
    \/ UpJoinException
    \/ UpJoinTimeout
    \/ UpReset
    \/ UpNoContentId
    \/ UpSuccess

(***************************************************************************)
(* DailyArtApp.run (main.py).                                              *)
(*                                                                         *)
(* Paths are modelled by what the code tests of them: where a path came    *)
(* from decides startswith(image_dir) and samefile.  The television is     *)
(* "up" or "down" and may change at any moment of the run.                 *)
(***************************************************************************)
\* custom_image: None, a path that does not exist, an existing file outside
\* the generator's image_dir, an existing file inside it.
CustomImages == {None, "missing", "custom", "customGen"}

\* image_path.startswith(self.image_generator.image_dir)
StartsWithImageDir(path) == path \in {"generated", "customGen"}

\* os.path.samefile(image_path, custom_image), for an existing custom_image
SameFile(path, custom) == path = custom

\* Mutant: a stage's output is never taken over.
M_ImageAfterStage_KeepsInput(path, output, success) == path

\* image_path after the enhancement or the upscale stage: the stage's output
\* if the stage succeeded, the image it was given otherwise.
ImageAfterStage(path, output, success) == IF success THEN output ELSE path

\* clean_intermediate_files: the files are removed (a failing removal is
\* logged) and the list is cleared.
CleanIntermediateFiles(files) == <<>>

\* What tv.art().upload returns.
RunUploadIds == {"idA", "", None}

\* What set_active_art does for run: returns True, returns False, raises.
ActiveOutcomes == {"true", "false", "raise"}

InitRun ==
    /\ runPc = "start"
    /\ runSkipUpload \in BOOLEAN
    /\ runCustomImage \in CustomImages
    /\ runPreset \in BOOLEAN
    /\ runUpscale \in BOOLEAN
    /\ runTv \in {"up", "down"}
    /\ runTvEverUp = (runTv = "up")
    /\ runInitAttempts = 0
    /\ runImagePath = None
    /\ runIntermediate = <<>>
    /\ runContentId = None
    /\ runObtained = FALSE
    /\ runActive = <<>>
    /\ runExit = 0
    /\ runLog = <<>>
    /\ runResult = None

IdleRun ==
    /\ runPc = "idle"
    /\ runSkipUpload = FALSE
    /\ runCustomImage = None
    /\ runPreset = FALSE
    /\ runUpscale = FALSE
    /\ runTv = "down"
    /\ runTvEverUp = FALSE
    /\ runInitAttempts = 0
    /\ runImagePath = None
    /\ runIntermediate = <<>>
    /\ runContentId = None
    /\ runObtained = FALSE
    /\ runActive = <<>>
    /\ runExit = 0
    /\ runLog = <<>>
    /\ runResult = None

runInputs == <<runSkipUpload, runCustomImage, runPreset, runUpscale>>
runTvState == <<runTv, runTvEverUp>>
runLocals == <<runInitAttempts, runImagePath, runContentId, runObtained, runActive>>

\* stage or TV operation op was run on arg and ended with out
RunLogged(op, arg, out) == runLog' = Append(runLog, [op |-> op, arg |-> arg, out |-> out])

\* return <value> at line <line>, the list of intermediate files being <files>
RunReturn(value, line, files) ==
    /\ runPc' = "done"
    /\ runResult' = value
    /\ runExit' = line
    /\ runIntermediate' = files

\* except Exception at line 456: clean up, return False
RunOuterExcept == RunReturn("False", 463, CleanIntermediateFiles(runIntermediate))

\* except Exception at line 437: clean up, return True
RunInnerExcept == RunReturn("True", 454, CleanIntermediateFiles(runIntermediate))

RunGoto(pc) ==
    /\ runPc' = pc
    /\ UNCHANGED <<runResult, runExit>>

\* The television goes up or down while run is in progress.
RunTvChanges ==
    /\ runPc \notin {"idle", "done"}
    /\ runTv' = IF runTv = "up" THEN "down" ELSE "up"
    /\ runTvEverUp' = (runTvEverUp \/ runTv' = "up")
    /\ UNCHANGED <<runPc, runResult, runExit, runIntermediate, runInputs, runLocals>>
    /\ UNCHANGED fileVars
    /\ UNCHANGED runLog
    /\ UNCHANGED notRunVars

\* lines 179-181: the uploader is constructed first, unless skip_upload
RunStart ==
    /\ runPc = "start"
    /\ RunGoto(IF runSkipUpload THEN "image" ELSE "init")
    /\ UNCHANGED <<runIntermediate, runInputs, runTvState, runLocals>>
    /\ UNCHANGED fileVars
    /\ UNCHANGED runLog
    /\ UNCHANGED notRunVars

\* TVImageUploader.__init__ -> _initialize_tv_connection under retry(5):
\* is_tv_available is False (it always is while the TV is down, and it can be
\* while the TV is up) and the body raises ConnectionError
RunInitUnreachable ==
    /\ runPc = "init"
    /\ LET d == RetryOnRaise(runInitAttempts, InitConnMaxAttempts, "ConnectionError")
       IN IF d.verdict = "sleep"
          THEN /\ runInitAttempts' = d.attempts
               /\ RunGoto("init")
               /\ UNCHANGED runIntermediate
          ELSE /\ runInitAttempts' = d.attempts
               /\ RunOuterExcept
    /\ UNCHANGED <<runInputs, runTvState, runImagePath, runContentId, runObtained, runActive>>
    /\ UNCHANGED fileVars
    /\ RunLogged("connect", None, "unreachable")
    /\ UNCHANGED notRunVars

\* the TV is available but SamsungTVWS(...) raises; the exception is re-raised
\* at line 370 and goes through the retry wrapper
RunInitConnRaises ==
    /\ runPc = "init"
    /\ runTv = "up"
    /\ \E t \in TvExcTypes :
         LET d == RetryOnRaise(runInitAttempts, InitConnMaxAttempts, t)
         IN IF d.verdict = "sleep"
            THEN /\ runInitAttempts' = d.attempts
                 /\ RunGoto("init")
                 /\ UNCHANGED runIntermediate
            ELSE /\ runInitAttempts' = d.attempts
                 /\ RunOuterExcept
    /\ UNCHANGED <<runInputs, runTvState, runImagePath, runContentId, runObtained, runActive>>
    /\ UNCHANGED fileVars
    /\ RunLogged("connect", None, "raise")
    /\ UNCHANGED notRunVars

RunInitOk ==
    /\ runPc = "init"
    /\ runTv = "up"
    /\ RunGoto("image")
    /\ UNCHANGED <<runIntermediate, runInputs, runTvState, runLocals>>
    /\ UNCHANGED fileVars
    /\ RunLogged("connect", None, "ok")
    /\ UNCHANGED notRunVars


\* Step 1, lines 184-186: custom_image is given and exists
RunUseCustomImage ==
    /\ runPc = "image"
    /\ runCustomImage \in {"custom", "customGen"}
    /\ runImagePath' = runCustomImage
    /\ runObtained' = TRUE
    /\ RunGoto("enhance")
    /\ UNCHANGED <<runIntermediate, runInputs, runTvState, runInitAttempts,
                   runContentId, runActive>>
    /\ UNCHANGED fileVars
    /\ RunLogged("image", runCustomImage, "exists")
    /\ UNCHANGED notRunVars

\* Step 1, lines 187-194: generate_image returns a path, returns None, raises
RunGenerate ==
    /\ runPc = "image"
    /\ runCustomImage \in {None, "missing"}
    /\ \E outcome \in {"path", "none", "raise"} :
         /\ RunLogged("image", None, outcome)
         /\ CASE outcome = "path" ->
                   /\ runImagePath' = "generated"
                   /\ runObtained' = TRUE
                   /\ RunGoto("enhance")
                   /\ UNCHANGED runIntermediate
              [] outcome = "none" ->
                   /\ RunReturn("False", 192, runIntermediate)
                   /\ UNCHANGED <<runImagePath, runObtained>>
              [] outcome = "raise" ->
                   /\ RunOuterExcept
                   /\ UNCHANGED <<runImagePath, runObtained>>
    /\ UNCHANGED <<runInputs, runTvState, runInitAttempts, runContentId, runActive>>
    /\ UNCHANGED fileVars
    /\ UNCHANGED notRunVars

\* Step 2, lines 197-205, with enhance_image (lines 98-154): on success the
\* original is tracked if it lies in image_dir and the enhanced image is used
RunEnhance ==
    /\ runPc = "enhance"
    /\ \E enhanced \in BOOLEAN :
         /\ IF runPreset
            THEN RunLogged("enhance", runImagePath, IF enhanced THEN "ok" ELSE "failed")
            ELSE UNCHANGED runLog
         /\ runIntermediate' =
               IF runPreset /\ enhanced /\ StartsWithImageDir(runImagePath)
               THEN Append(runIntermediate, runImagePath)
               ELSE runIntermediate
         /\ runImagePath' = ImageAfterStage(runImagePath, "enhanced", runPreset /\ enhanced)
    /\ RunGoto("upscale")
    /\ UNCHANGED <<runInputs, runTvState, runInitAttempts, runContentId,
                   runObtained, runActive>>
    /\ UNCHANGED fileVars
    /\ UNCHANGED notRunVars

\* Step 3, lines 208-238: on success the pre-upscale image is tracked unless it
\* is the user's file; os.path.samefile raises when custom_image was given but
\* does not exist
RunUpscale ==
    /\ runPc = "upscale"
    /\ \E success \in BOOLEAN :
         /\ IF runUpscale
            THEN RunLogged("upscale", runImagePath, IF success THEN "ok" ELSE "failed")
            ELSE UNCHANGED runLog
         /\ IF runUpscale /\ success
            THEN IF runCustomImage = "missing"
                 THEN /\ RunOuterExcept
                      /\ UNCHANGED runImagePath
                 ELSE /\ runIntermediate' =
                            IF runCustomImage = None \/ ~SameFile(runImagePath, runCustomImage)
                            THEN Append(runIntermediate, runImagePath)
                            ELSE runIntermediate
                      /\ runImagePath' = ImageAfterStage(runImagePath, "upscaled", TRUE)
                      /\ RunGoto("afterImage")
            ELSE /\ RunGoto("afterImage")
                 /\ runImagePath' = ImageAfterStage(runImagePath, "upscaled", FALSE)
                 /\ UNCHANGED runIntermediate
    /\ UNCHANGED <<runInputs, runTvState, runInitAttempts, runContentId,
                   runObtained, runActive>>
    /\ UNCHANGED fileVars
    /\ UNCHANGED notRunVars

\* lines 241-279: skip_upload: clean up, return True
RunSkipUpload ==
    /\ runPc = "afterImage"
    /\ IF runSkipUpload
       THEN RunReturn("True", 279, CleanIntermediateFiles(runIntermediate))
       ELSE /\ RunGoto("probe")
            /\ UNCHANGED runIntermediate
    /\ UNCHANGED <<runInputs, runTvState, runLocals>>
    /\ UNCHANGED fileVars
    /\ UNCHANGED runLog
    /\ UNCHANGED notRunVars

\* lines 282-295: connect_ex to port 8002; a non-zero result returns True at
\* line 293; an exception of the probe itself is logged and run goes on
RunProbe ==
    /\ runPc = "probe"
    /\ \E probe \in {"zero", "nonzero", "raise"} :
         /\ probe = "zero" => runTv = "up"
         /\ probe = "nonzero" => runTv = "down"
         /\ RunLogged("probe", None, probe)
         /\ IF probe = "nonzero"
            THEN RunReturn("True", 293, runIntermediate)
            ELSE /\ RunGoto("upload")
                 /\ UNCHANGED runIntermediate
    /\ UNCHANGED <<runInputs, runTvState, runLocals>>
    /\ UNCHANGED fileVars
    /\ UNCHANGED notRunVars


\* Step 4, lines 299-366: a file over 10 MB is resized and the resized copy is
\* tracked; tv.art().upload raises (handler at line 437), returns a falsy
\* content id (return False at line 365), or returns the id
RunUpload ==
    /\ runPc = "upload"
    /\ \E optimized \in BOOLEAN, outcome \in {"return", "raise"}, id \in RunUploadIds :
         LET files == IF optimized THEN Append(runIntermediate, "optimized")
                      ELSE runIntermediate
         IN /\ runImagePath' = IF optimized THEN "optimized" ELSE runImagePath
            /\ RunLogged("upload", runImagePath,
                         IF outcome = "raise" THEN "raise"
                         ELSE IF Truthy(id) THEN "id" ELSE "empty")
            /\ outcome = "return" /\ Truthy(id) => runTv = "up"
            /\ CASE outcome = "raise" ->
                      /\ RunReturn("True", 454, CleanIntermediateFiles(files))
                      /\ UNCHANGED runContentId
                 [] outcome = "return" /\ ~Truthy(id) ->
                      /\ RunReturn("False", 365, files)
                      /\ runContentId' = id
                 [] outcome = "return" /\ Truthy(id) ->
                      /\ RunGoto("saveId")
                      /\ runIntermediate' = files
                      /\ runContentId' = id
    /\ UNCHANGED <<runInputs, runTvState, runInitAttempts, runObtained, runActive>>
    /\ UNCHANGED fileVars
    /\ UNCHANGED notRunVars

\* lines 377-382: last_uploaded_id.txt is written; a failure is logged
RunSaveId ==
    /\ runPc = "saveId"
    /\ \E written \in BOOLEAN :
         fileUploadedId' = IF written THEN runContentId ELSE fileUploadedId
    /\ RunGoto("matte")
    /\ UNCHANGED <<runIntermediate, runInputs, runTvState, runLocals>>
    /\ UNCHANGED fileContentId
    /\ UNCHANGED runLog
    /\ UNCHANGED notRunVars

\* lines 386-395: change_matte; a failure is logged
RunMatte ==
    /\ runPc = "matte"
    /\ RunGoto("active1")
    /\ UNCHANGED <<runIntermediate, runInputs, runTvState, runLocals>>
    /\ UNCHANGED fileVars
    /\ RunLogged("matte", runContentId, "done")
    /\ UNCHANGED notRunVars

\* lines 406-431: set_active_art, and once more if it returned False; after
\* a False or an exception debug_tv_state runs, and an exception of
\* debug_tv_state reaches the handler at line 437
RunSetActive ==
    /\ runPc \in {"active1", "active2"}
    /\ \E outcome \in ActiveOutcomes, debugRaises \in BOOLEAN :
         /\ runActive' = Append(runActive, outcome)
         /\ RunLogged("select", runContentId, outcome)
         /\ IF outcome # "true" /\ debugRaises
            THEN RunInnerExcept
            ELSE /\ RunGoto(IF outcome = "false" /\ runPc = "active1"
                            THEN "active2" ELSE "finish")
                 /\ UNCHANGED runIntermediate
    /\ UNCHANGED <<runInputs, runTvState, runInitAttempts, runImagePath,
                   runContentId, runObtained>>
    /\ UNCHANGED fileVars
    /\ UNCHANGED notRunVars

\* lines 433-436: clean up, return True
RunFinish ==
    /\ runPc = "finish"
    /\ RunReturn("True", 436, CleanIntermediateFiles(runIntermediate))
    /\ UNCHANGED <<runInputs, runTvState, runLocals>>
    /\ UNCHANGED fileVars
    /\ UNCHANGED runLog
    /\ UNCHANGED notRunVars

NextRun ==
    \/ RunTvChanges
    \/ RunStart
    \/ RunInitUnreachable
    \/ RunInitConnRaises
    \/ RunInitOk
    \/ RunUseCustomImage
    \/ RunGenerate
    \/ RunEnhance
    \/ RunUpscale
    \/ RunSkipUpload
    \/ RunProbe
    \/ RunUpload
    \/ RunSaveId
    \/ RunMatte
    \/ RunSetActive
    \/ RunFinish

(***************************************************************************)
(* tv_power.py: main, FrameTVPowerController.turn_on and turn_off.         *)
(*                                                                         *)
(* Every reachability check, connection and TV command may succeed or      *)
(* fail at each call; the helpers catch every exception themselves.        *)
(***************************************************************************)
\* for i in range(30): the polls after a Wake-on-LAN packet
WolPolls == 30

\* Mutant: the packet is sent whatever the first check said.
M_WolNeeded_Always(reachable) == TRUE

\* turn_on: if not self._is_tv_reachable(timeout=2.0)
WolNeeded(reachable) == ~reachable

\* _wake_tv_with_wol: the library and the MAC address are there and
\* send_magic_packet did not raise
WolSent(hasWol, hasMac, sendOk) == hasWol /\ hasMac /\ sendOk

\* main: the exit status for what turn_on / turn_off did
MainExitCode(outcome) ==
    CASE outcome = "success" -> 0
      [] outcome = "failure" -> 3
      [] outcome = "ConnectionError" -> 2
      [] OTHER -> 3

NoMessage == "None"

\* the values a TV puts into the fields of its answer
ArtValues == {"on", "off"}

\* what art().get_artmode() gives: a bool, a dict with 'artmode', a dict
\* with 'data' (holding 'value' or not), anything else, or an exception,
\* whose text has "error number -7" or not
ArtModeResponses ==
    [shape : {"bool"}, value : {"True", "False"}]
    \cup [shape : {"artmode"}, value : {"True", "False"} \cup ArtValues]
    \cup [shape : {"data.value"}, value : ArtValues]
    \cup [shape : {"data", "other"}, value : ArtValues \cup {"None"}]
    \cup [shape : {"raise -7", "raise"}, value : {"None"}]

NoResponse == [shape |-> "none", value |-> "None"]

\* bool(x) of Python for the values above: a non-empty string is true
BoolOf(value) == value \notin {"False", "None", ""}

Bool(b) == IF b THEN "True" ELSE "False"

\* _get_art_mode_status (lines 205-244) once self.tv is set
GetArtModeStatus(response) ==
    CASE response.shape = "bool" -> response.value
      [] response.shape = "artmode" -> Bool(BoolOf(response.value))
      [] response.shape = "data.value" -> Bool(response.value = "on")
      [] response.shape = "raise -7" -> "True"
      [] OTHER -> "None"

\* Mutant: the power command is sent whatever the check said.
M_ToggleDue_Always(reachable) == TRUE

\* turn_on, line 371: if not self._is_tv_reachable()
ToggleDue(reachable) == ~reachable

\* Mutant: the fallback is sent after KEY_POWER in every case.
M_FallbackDue_Always(keyRaised) == TRUE

\* turn_off: shortcuts().power() is in the except clause of send_key
FallbackDue(keyRaised) == keyRaised

InitPw ==
    /\ pwPc = "main"
    /\ pwCommand \in {"ON", "OFF"}
    /\ pwHasIp \in BOOLEAN
    /\ pwHasWol \in BOOLEAN
    /\ pwHasMac \in BOOLEAN
    /\ pwFirstReach = "None"
    /\ pwWolTried = FALSE
    /\ pwWolSent = FALSE
    /\ pwPolls = 0
    /\ pwPollOk = FALSE
    /\ pwConnects = 0
    /\ pwConnected = "None"
    /\ pwPatched = FALSE
    /\ pwSuccess = FALSE
    /\ pwMessage = NoMessage
    /\ pwExit = -1
    /\ pwResponse = NoResponse
    /\ pwArt = "unset"
    /\ pwLog = <<>>

IdlePw ==
    /\ pwPc = "idle"
    /\ pwCommand = "ON"
    /\ pwHasIp = FALSE
    /\ pwHasWol = FALSE
    /\ pwHasMac = FALSE
    /\ pwFirstReach = "None"
    /\ pwWolTried = FALSE
    /\ pwWolSent = FALSE
    /\ pwPolls = 0
    /\ pwPollOk = FALSE
    /\ pwConnects = 0
    /\ pwConnected = "None"
    /\ pwPatched = FALSE
    /\ pwSuccess = FALSE
    /\ pwMessage = NoMessage
    /\ pwExit = -1
    /\ pwResponse = NoResponse
    /\ pwArt = "unset"
    /\ pwLog = <<>>

pwInputs == <<pwCommand, pwHasIp, pwHasWol, pwHasMac>>
pwWol == <<pwFirstReach, pwWolTried, pwWolSent, pwPolls, pwPollOk>>
pwConn == <<pwConnects, pwConnected, pwPatched>>
pwOut == <<pwSuccess, pwMessage, pwExit>>
pwTv == <<pwResponse, pwArt>>

\* a reachability check or a command, and whether it succeeded
Event(cmd, ok) == [cmd |-> cmd, ok |-> ok]
Logged(events) == pwLog' = pwLog \o events

PwGoto(pc) ==
    /\ pwPc' = pc
    /\ UNCHANGED pwOut

\* return success, message; the finally clause restores socket.settimeout
PwReturn(success, message) ==
    /\ pwPc' = "returned"
    /\ pwSuccess' = success
    /\ pwMessage' = message
    /\ pwPatched' = FALSE
    /\ UNCHANGED pwExit

\* main, lines 508-526: no IP address gives status 1; otherwise the command
\* is dispatched
PwMain ==
    /\ pwPc = "main"
    /\ IF ~pwHasIp
       THEN /\ pwPc' = "exit"
            /\ pwExit' = 1
            /\ UNCHANGED <<pwSuccess, pwMessage>>
       ELSE PwGoto(IF pwCommand = "ON" THEN "onCheck" ELSE "offCheck")
    /\ UNCHANGED <<pwInputs, pwWol, pwConn, pwTv, pwLog>>
    /\ UNCHANGED <<fileVars, notPwVars>>

\* turn_on, line 330: the first reachability check
PwOnCheck ==
    /\ pwPc = "onCheck"
    /\ \E reachable \in BOOLEAN :
         /\ pwFirstReach' = IF reachable THEN "yes" ELSE "no"
         /\ PwGoto(IF WolNeeded(reachable) THEN "wol" ELSE "connect")
         /\ Logged(<<Event("reach", reachable)>>)
    /\ UNCHANGED <<pwInputs, pwWolTried, pwWolSent, pwPolls, pwPollOk, pwConn, pwTv>>
    /\ UNCHANGED <<fileVars, notPwVars>>

\* turn_on, lines 334 and 344-346, with _wake_tv_with_wol
PwWol ==
    /\ pwPc = "wol"
    /\ \E sendOk \in BOOLEAN :
         /\ pwWolTried' = TRUE
         /\ pwWolSent' = WolSent(pwHasWol, pwHasMac, sendOk)
         /\ PwGoto(IF WolSent(pwHasWol, pwHasMac, sendOk) THEN "poll" ELSE "connect")
         /\ Logged(IF pwHasWol /\ pwHasMac THEN <<Event("wol", sendOk)>> ELSE <<>>)
    /\ UNCHANGED <<pwInputs, pwFirstReach, pwPolls, pwPollOk, pwConn, pwTv>>
    /\ UNCHANGED <<fileVars, notPwVars>>

\* turn_on, lines 337-343: one poll of the for loop; the else clause of the
\* loop returns failure
PwPoll ==
    /\ pwPc = "poll"
    /\ pwPolls < WolPolls
    /\ pwPolls' = pwPolls + 1
    /\ \E reachable \in BOOLEAN :
         /\ pwPollOk' = reachable
         /\ Logged(<<Event("reach", reachable)>>)
         /\ IF reachable
            THEN /\ PwGoto("connect")
                 /\ UNCHANGED pwPatched
            ELSE IF pwPolls + 1 < WolPolls
                 THEN /\ PwGoto("poll")
                      /\ UNCHANGED pwPatched
                 ELSE PwReturn(FALSE, "TV did not respond after Wake-on-LAN")
    /\ UNCHANGED <<pwInputs, pwFirstReach, pwWolTried, pwWolSent, pwConnects, pwConnected, pwTv>>
    /\ UNCHANGED <<fileVars, notPwVars>>


\* _connect_to_tv (lines 152-181) as called by turn_on (line 349) and
\* turn_off (line 402): every exception is caught and gives False
PwConnect ==
    /\ pwPc \in {"connect", "offConnect"}
    /\ pwConnects' = pwConnects + 1
    /\ \E ok \in BOOLEAN :
         /\ pwConnected' = IF ok THEN "ok" ELSE "failed"
         /\ IF ok
            THEN /\ PwGoto(IF pwPc = "connect" THEN "artStatus" ELSE "offKey")
                 /\ pwPatched' = TRUE
            ELSE PwReturn(FALSE, "Failed to connect to TV")
    /\ UNCHANGED <<pwInputs, pwWol, pwTv, pwLog>>
    /\ UNCHANGED <<fileVars, notPwVars>>

\* turn_on, lines 353-365: _get_art_mode_status gives True, False or None;
\* False makes turn_on call _set_art_mode(True)
PwArtStatus ==
    /\ pwPc = "artStatus"
    /\ \E response \in ArtModeResponses :
         LET status == GetArtModeStatus(response)
         IN /\ pwResponse' = response
            /\ pwArt' = status
            /\ CASE status = "True" ->
                      /\ PwReturn(TRUE, "TV already in art mode")
                      /\ UNCHANGED pwLog
                 [] status = "False" ->
                      \E set \in BOOLEAN :
                         /\ Logged(<<Event("set_artmode", set)>>)
                         /\ IF set THEN PwReturn(TRUE, "Art mode enabled")
                            ELSE PwReturn(FALSE, "Failed to enable art mode")
                 [] OTHER ->
                      /\ PwGoto("unknown")
                      /\ UNCHANGED <<pwPatched, pwLog>>
    /\ UNCHANGED <<pwInputs, pwWol, pwConnects, pwConnected>>
    /\ UNCHANGED <<fileVars, notPwVars>>

\* turn_on, lines 367-383: art mode unknown: a power toggle if the TV is
\* not reachable, _set_art_mode(True), and a last reachability check if
\* that failed
PwUnknown ==
    /\ pwPc = "unknown"
    /\ \E reachable \in BOOLEAN, toggled \in BOOLEAN, set \in BOOLEAN, still \in BOOLEAN :
         /\ Logged(<<Event("reach", reachable)>>
                   \o (IF ToggleDue(reachable) THEN <<Event("power", toggled)>> ELSE <<>>)
                   \o <<Event("set_artmode", set)>>
                   \o (IF set THEN <<>> ELSE <<Event("reach", still)>>))
         /\ IF set THEN PwReturn(TRUE, "TV turned on with art mode")
            ELSE IF still
                 THEN PwReturn(TRUE, "TV turned on (art mode status uncertain)")
                 ELSE PwReturn(FALSE, "Failed to turn on TV")
    /\ UNCHANGED <<pwInputs, pwWol, pwConnects, pwConnected, pwTv>>
    /\ UNCHANGED <<fileVars, notPwVars>>

\* turn_off, lines 397-399: the TV does not answer, it is taken to be off
PwOffCheck ==
    /\ pwPc = "offCheck"
    /\ \E reachable \in BOOLEAN :
         /\ pwFirstReach' = IF reachable THEN "yes" ELSE "no"
         /\ IF reachable
            THEN /\ PwGoto("offConnect")
                 /\ UNCHANGED pwPatched
            ELSE PwReturn(TRUE, "TV already off")
         /\ Logged(<<Event("reach", reachable)>>)
    /\ UNCHANGED <<pwInputs, pwWolTried, pwWolSent, pwPolls, pwPollOk, pwConnects, pwConnected, pwTv>>
    /\ UNCHANGED <<fileVars, notPwVars>>

\* turn_off, lines 407-441: KEY_POWER, then shortcuts().power() if that
\* raised; after a command that went through, a reachability check picks
\* the message
PwOffKey ==
    /\ pwPc = "offKey"
    /\ \E keyOk \in BOOLEAN, fallbackOk \in BOOLEAN, reachable \in BOOLEAN :
         IF ~FallbackDue(~keyOk)
         THEN /\ Logged(<<Event("KEY_POWER", keyOk), Event("reach", reachable)>>)
              /\ PwReturn(TRUE, IF reachable THEN "TV in standby mode"
                                 ELSE "TV powered off successfully")
         ELSE IF fallbackOk
         THEN /\ Logged(<<Event("KEY_POWER", keyOk), Event("power", TRUE),
                          Event("reach", reachable)>>)
              /\ PwReturn(TRUE, IF reachable THEN "TV in standby (fallback method)"
                                 ELSE "TV powered off (fallback method)")
         ELSE /\ Logged(<<Event("KEY_POWER", keyOk), Event("power", FALSE)>>)
              /\ PwReturn(FALSE, "Failed to send power off command")
    /\ UNCHANGED <<pwInputs, pwWol, pwConnects, pwConnected, pwTv>>
    /\ UNCHANGED <<fileVars, notPwVars>>

\* main, lines 528-540: turn_on / turn_off has returned (neither lets an
\* exception out)
PwExit ==
    /\ pwPc = "returned"
    /\ pwPc' = "exit"
    /\ pwExit' = MainExitCode(IF pwSuccess THEN "success" ELSE "failure")
    /\ UNCHANGED <<pwSuccess, pwMessage>>
    /\ UNCHANGED <<pwInputs, pwWol, pwConn, pwTv, pwLog>>
    /\ UNCHANGED <<fileVars, notPwVars>>

NextPw ==
    \/ PwMain
    \/ PwOnCheck
    \/ PwWol
    \/ PwPoll
    \/ PwConnect
    \/ PwArtStatus
    \/ PwUnknown
    \/ PwOffCheck
    \/ PwOffKey
    \/ PwExit

(***************************************************************************)
(* generate_image.py: HolidayConfig.is_active and the ordinal suffix of    *)
(* _get_current_season_info, applied to every calendar date.               *)
(***************************************************************************)
Months == 1..12

\* the days of each month of a leap year: the dates datetime can hold
DaysIn == <<31, 29, 31, 30, 31, 30, 31, 31, 30, 31, 30, 31>>

Dates == {dt \in [month : Months, day : 1..31] : dt.day <= DaysIn[dt.month]}

\* the start and end days the holiday configurations are drawn from
HolidayDays == {1, 15, 28}

HolidayConfigs ==
    [start_month : Months, start_day : HolidayDays,
     end_month : Months, end_day : HolidayDays]

\* Mutant: in a range that wraps the year the whole start month is active.
M_IsActiveWrap_WholeStartMonth(cfg, date) ==
    IF date.month > cfg.start_month THEN date.day >= cfg.start_day
    ELSE IF date.month = cfg.start_month THEN TRUE
    ELSE IF date.month < cfg.end_month THEN TRUE
    ELSE IF date.month = cfg.end_month THEN date.day <= cfg.end_day
    ELSE FALSE

\* is_active, the branch of a range that wraps the year (lines 34-44)
IsActiveWrap(cfg, date) ==
    IF date.month > cfg.start_month THEN date.day >= cfg.start_day
    ELSE IF date.month = cfg.start_month THEN date.day >= cfg.start_day
    ELSE IF date.month < cfg.end_month THEN TRUE
    ELSE IF date.month = cfg.end_month THEN date.day <= cfg.end_day
    ELSE FALSE

\* Mutant: the end day is excluded.
M_IsActiveStandard_EndExcluded(cfg, date) ==
    IF date.month < cfg.start_month \/ date.month > cfg.end_month THEN FALSE
    ELSE IF date.month = cfg.start_month /\ date.day < cfg.start_day THEN FALSE
    ELSE IF date.month = cfg.end_month /\ date.day >= cfg.end_day THEN FALSE
    ELSE TRUE

\* is_active, the branch of a range within one year (lines 45-53)
IsActiveStandard(cfg, date) ==
    IF date.month < cfg.start_month \/ date.month > cfg.end_month THEN FALSE
    ELSE IF date.month = cfg.start_month /\ date.day < cfg.start_day THEN FALSE
    ELSE IF date.month = cfg.end_month /\ date.day > cfg.end_day THEN FALSE
    ELSE TRUE

\* HolidayConfig.is_active
IsActive(cfg, date) ==
    IF cfg.start_month > cfg.end_month
    THEN IsActiveWrap(cfg, date)
    ELSE IsActiveStandard(cfg, date)

\* Mutant: only the days 4..20 take "th" without a lookup.
M_TakesTh_TeensOnly(day) == 4 <= day /\ day <= 20

\* if 4 <= current_day <= 20 or 24 <= current_day <= 30
TakesTh(day) == (4 <= day /\ day <= 20) \/ (24 <= day /\ day <= 30)

SuffixList == <<"st", "nd", "rd">>

\* list[index] of Python for a list of length Len(list): a negative index
\* counts from the end, an index outside -len..len-1 raises IndexError
PyIndex(list, index) ==
    IF 0 <= index /\ index < Len(list) THEN list[index + 1]
    ELSE IF -Len(list) <= index /\ index < 0 THEN list[Len(list) + index + 1]
    ELSE "IndexError"

\* the index the suffix lookup uses: current_day % 10 - 1
SuffixIndex(day) == (day % 10) - 1

\* the suffix of _get_current_season_info (lines 283-286)
OrdinalSuffix(day) ==
    IF TakesTh(day) THEN "th" ELSE PyIndex(SuffixList, SuffixIndex(day))

InitCal ==
    /\ calPc = "start"
    /\ calCfg \in HolidayConfigs
    /\ calDate \in Dates
    /\ calSuffix = "None"
    /\ calIndex = -2
    /\ calActive = "None"

IdleCal ==
    /\ calPc = "idle"
    /\ calCfg = [start_month |-> 1, start_day |-> 1, end_month |-> 1, end_day |-> 1]
    /\ calDate = [month |-> 1, day |-> 1]
    /\ calSuffix = "None"
    /\ calIndex = -2
    /\ calActive = "None"

\* _get_current_season_info, lines 283-286: the suffix of the day
CalSuffix ==
    /\ calPc = "start"
    /\ calPc' = "suffix"
    /\ calSuffix' = OrdinalSuffix(calDate.day)
    /\ calIndex' = IF TakesTh(calDate.day) THEN -2 ELSE SuffixIndex(calDate.day)
    /\ UNCHANGED <<calCfg, calDate, calActive>>
    /\ UNCHANGED <<fileVars, notCalVars>>

\* _get_current_season_info, lines 294-297: holiday.is_active(current_date)
CalIsActive ==
    /\ calPc = "suffix"
    /\ calSuffix # "IndexError"
    /\ calPc' = "done"
    /\ calActive' = IF IsActive(calCfg, calDate) THEN "True" ELSE "False"
    /\ UNCHANGED <<calCfg, calDate, calSuffix, calIndex>>
    /\ UNCHANGED <<fileVars, notCalVars>>

NextCal ==
    \/ CalSuffix
    \/ CalIsActive

(***************************************************************************)
(* weather_service.py: WeatherService.get_current_weather.                 *)
(***************************************************************************)
\* the largest weather code the model feeds in
MaxWeatherCode == 100

\* WeatherService.WEATHER_CODES
WEATHER_CODES ==
    (0 :> "Clear sky") @@ (1 :> "Mainly clear") @@ (2 :> "Partly cloudy")
    @@ (3 :> "Overcast") @@ (45 :> "Fog") @@ (48 :> "Depositing rime fog")
    @@ (51 :> "Light drizzle") @@ (53 :> "Moderate drizzle") @@ (55 :> "Dense drizzle")
    @@ (56 :> "Light freezing drizzle") @@ (57 :> "Dense freezing drizzle")
    @@ (61 :> "Slight rain") @@ (63 :> "Moderate rain") @@ (65 :> "Heavy rain")
    @@ (66 :> "Light freezing rain") @@ (67 :> "Heavy freezing rain")
    @@ (71 :> "Slight snow fall") @@ (73 :> "Moderate snow fall")
    @@ (75 :> "Heavy snow fall") @@ (77 :> "Snow grains")
    @@ (80 :> "Slight rain showers") @@ (81 :> "Moderate rain showers")
    @@ (82 :> "Violent rain showers") @@ (85 :> "Slight snow showers")
    @@ (86 :> "Heavy snow showers") @@ (95 :> "Thunderstorm")
    @@ (96 :> "Thunderstorm with slight hail") @@ (99 :> "Thunderstorm with heavy hail")

\* current.get("weather_code"): an integer, or None when the key is missing
MissingCode == [present |-> FALSE, val |-> 0]
WeatherCodeValues ==
    {MissingCode} \cup [present : {TRUE}, val : -1..MaxWeatherCode]

\* Mutant: WEATHER_CODES[weather_code], which raises KeyError for a code
\* that is not in the table.
M_WeatherDescription_Subscript(code) ==
    IF code.present /\ code.val \in DOMAIN WEATHER_CODES
    THEN WEATHER_CODES[code.val]
    ELSE "KeyError"

\* self.WEATHER_CODES.get(weather_code, "Unknown")
WeatherDescription(code) ==
    IF code.present /\ code.val \in DOMAIN WEATHER_CODES
    THEN WEATHER_CODES[code.val]
    ELSE "Unknown"

NoWeather == [kind |-> "none", condition |-> "None", code |-> MissingCode]

InitWx ==
    /\ wxPc = "start"
    /\ wxCode \in WeatherCodeValues
    /\ wxOut = NoWeather

IdleWx ==
    /\ wxPc = "idle"
    /\ wxCode = MissingCode
    /\ wxOut = NoWeather

\* get_current_weather, lines 69-72 and 86-88: the request fails, the
\* exception is caught and None is returned
WxRequestFails ==
    /\ wxPc = "start"
    /\ wxPc' = "done"
    /\ wxOut' = [kind |-> "None", condition |-> "None", code |-> MissingCode]
    /\ UNCHANGED wxCode
    /\ UNCHANGED <<fileVars, notWxVars>>

\* get_current_weather, lines 74-84: the code is looked up
WxLookup ==
    /\ wxPc = "start"
    /\ wxPc' = "done"
    /\ LET description == WeatherDescription(wxCode)
       IN wxOut' = IF description = "KeyError"
                   THEN [kind |-> "None", condition |-> "KeyError", code |-> wxCode]
                   ELSE [kind |-> "dict", condition |-> description, code |-> wxCode]
    /\ UNCHANGED wxCode
    /\ UNCHANGED <<fileVars, notWxVars>>

NextWx ==
    \/ WxRequestFails
    \/ WxLookup

(***************************************************************************)
(* The stored content id over a sequence of uploads: the save of           *)
(* upload_image (upload_image.py), the save of DailyArtApp.run (main.py)   *)
(* and the read at the top of set_active_art.                              *)
(***************************************************************************)
\* the largest number of uploads in a sequence
MaxUploads == 3

\* open(name, "w") and write: the file holds the id, or the write failed and
\* the file is as it was, or it was truncated before the failure
WriteOutcomes == {"written", "unchanged", "truncated"}

AfterWrite(file, id, outcome) ==
    CASE outcome = "written" -> id
      [] outcome = "truncated" -> ""
      [] OTHER -> file

InitStore ==
    /\ InitFiles
    /\ stUploads = 0
    /\ stLatest = None
    /\ stAllWritten = TRUE
    /\ stRead = None
    /\ stReadOk = FALSE

IdleStore ==
    /\ stUploads = 0
    /\ stLatest = None
    /\ stAllWritten = TRUE
    /\ stRead = None
    /\ stReadOk = FALSE

\* a successful upload is counted and any earlier read is out of date
StUploaded(id, allWritten) ==
    /\ stUploads < MaxUploads
    /\ stUploads' = stUploads + 1
    /\ stLatest' = id
    /\ stAllWritten' = (stAllWritten /\ allWritten)
    /\ stRead' = None
    /\ stReadOk' = FALSE

\* upload_image, lines 565-576: both files are written inside one try; the
\* second write is not reached when the first one raised
StUploadImage ==
    \E id \in Ids, first \in WriteOutcomes, second \in WriteOutcomes :
        /\ fileUploadedId' = AfterWrite(fileUploadedId, id, first)
        /\ fileContentId' = IF first = "written"
                            THEN AfterWrite(fileContentId, id, second)
                            ELSE fileContentId
        /\ StUploaded(id, first = "written" /\ second = "written")
        /\ UNCHANGED notStVars

\* DailyArtApp.run, lines 376-382: only last_uploaded_id.txt is written
StRun ==
    \E id \in Ids, outcome \in WriteOutcomes :
        /\ fileUploadedId' = AfterWrite(fileUploadedId, id, outcome)
        /\ UNCHANGED fileContentId
        /\ StUploaded(id, outcome = "written")
        /\ UNCHANGED notStVars

\* set_active_art, lines 701-718: stored_id is read
StSetActiveRead ==
    /\ stUploads > 0
    /\ ~stReadOk
    /\ \E readFails \in BOOLEAN :
         /\ stRead' = ReadStoredId(fileUploadedId, fileContentId, readFails)
         /\ stReadOk' = ~readFails
    /\ UNCHANGED <<stUploads, stLatest, stAllWritten>>
    /\ UNCHANGED <<fileVars, notStVars>>

NextStore ==
    \/ StUploadImage
    \/ StRun
    \/ StSetActiveRead

(***************************************************************************)
(* main.py: main, from the command line to the exit status.  run is        *)
(* followed through its enhancement step; its other steps are one step     *)
(* each (DailyArtApp.run has its own machine above).                       *)
(***************************************************************************)
\* the keys of get_preset_params() (enhancement_presets.py)
Presets == {"original", "mild", "medium", "strong", "tv-optimized", "sharp-only",
            "unsharp-only", "upscale-only", "upscale-sharp"}

\* values of --enhance: the default, the word that skips enhancement in two
\* spellings, another preset, and a name that is no preset
EnhanceArgs == {"upscale-sharp", "none", "None", "original", "bogus"}

\* str.lower() on the values of EnhanceArgs
Lower(s) == IF s = "None" THEN "none" ELSE s

\* enhancement_preset = None if args.enhance.lower() == "none" else args.enhance
EnhancementPreset(arg) == IF Lower(arg) = "none" THEN None ELSE arg

\* Mutant: a failed run ends like a successful one.
M_AppExitStatus_AlwaysZero(success) == 0

\* the end of main: sys.exit(1) when run returned False, else the end of the
\* script (status 0)
AppExitStatus(success) == IF success = "True" THEN 0 ELSE 1

InitApp ==
    /\ appPc = "parse"
    /\ appArgs \in [list_presets : BOOLEAN, enhance : EnhanceArgs]
    /\ appEnv \in [tv_ip : BOOLEAN, api_key : BOOLEAN]
    /\ appSteps = <<>>
    /\ appSuccess = None
    /\ appExit = -1

IdleApp ==
    /\ appPc = "idle"
    /\ appArgs = [list_presets |-> FALSE, enhance |-> "none"]
    /\ appEnv = [tv_ip |-> FALSE, api_key |-> FALSE]
    /\ appSteps = <<>>
    /\ appSuccess = None
    /\ appExit = -1

\* sys.exit(status), or an exception nobody catches (status 1)
AppExits(status) ==
    /\ appPc' = "exited"
    /\ appExit' = status
    /\ UNCHANGED <<appSteps, appSuccess>>

\* run goes on with its next step
AppStep(pc, step) ==
    /\ appPc' = pc
    /\ appSteps' = Append(appSteps, step)
    /\ UNCHANGED <<appSuccess, appExit>>

\* run returns
AppRunReturns(value, step) ==
    /\ appPc' = "end"
    /\ appSteps' = Append(appSteps, step)
    /\ appSuccess' = value
    /\ UNCHANGED appExit

\* main, lines 638-644: --list-presets prints the presets and exits
AppListPresets ==
    /\ appPc = "parse"
    /\ IF appArgs.list_presets
       THEN AppExits(0)
       ELSE /\ appPc' = "construct"
            /\ UNCHANGED <<appSteps, appSuccess, appExit>>
    /\ UNCHANGED <<appArgs, appEnv>>
    /\ UNCHANGED <<fileVars, notAppVars>>

\* DailyArtApp(log_level): sys.exit(1) without SAMSUNG_TV_IP (lines 50-54),
\* then ImageGenerator() raises ValueError without OPENAI_API_KEY
AppConstruct ==
    /\ appPc = "construct"
    /\ IF ~appEnv.tv_ip \/ ~appEnv.api_key
       THEN AppExits(1)
       ELSE /\ appPc' = "image"
            /\ UNCHANGED <<appSteps, appSuccess, appExit>>
    /\ UNCHANGED <<appArgs, appEnv>>
    /\ UNCHANGED <<fileVars, notAppVars>>

\* run, step 1: an image is obtained, or run returns False
AppRunImage ==
    /\ appPc = "image"
    /\ \/ AppStep("enhance", "image")
       \/ AppRunReturns("False", "no image")
    /\ UNCHANGED <<appArgs, appEnv>>
    /\ UNCHANGED <<fileVars, notAppVars>>

\* run, step 2 (lines 197-205) with enhance_image (lines 108-154): an unknown
\* preset makes enhance_image return None, and run goes on with the image
AppRunEnhance ==
    /\ appPc = "enhance"
    /\ LET preset == EnhancementPreset(appArgs.enhance)
       IN IF ~Truthy(preset) THEN AppStep("rest", "not enhanced")
          ELSE IF preset \notin Presets THEN AppStep("rest", "unknown preset")
          ELSE \/ AppStep("rest", "enhanced")
               \/ AppStep("rest", "enhancement failed")
    /\ UNCHANGED <<appArgs, appEnv>>
    /\ UNCHANGED <<fileVars, notAppVars>>

\* run, steps 3 to 5: upscale, upload, activation; run returns True or False
AppRunRest ==
    /\ appPc = "rest"
    /\ \E value \in {"True", "False"} : AppRunReturns(value, "upscale, upload")
    /\ UNCHANGED <<appArgs, appEnv>>
    /\ UNCHANGED <<fileVars, notAppVars>>

\* main, lines 672-678
AppEnd ==
    /\ appPc = "end"
    /\ AppExits(AppExitStatus(appSuccess))
    /\ UNCHANGED <<appArgs, appEnv>>
    /\ UNCHANGED <<fileVars, notAppVars>>

NextApp ==
    \/ AppListPresets
    \/ AppConstruct
    \/ AppRunImage
    \/ AppRunEnhance
    \/ AppRunRest
    \/ AppEnd

(***************************************************************************)
(* generate_image.py: ImageGenerator.generate_art_prompt.  The prompt is   *)
(* the sequence of the text blocks appended to it, each named by its kind  *)
(* and, for holiday text, by the holiday it comes from.                    *)
(***************************************************************************)
\* the subjects of a list that the model tells apart
MaxSubjects == 2

\* ImageGenerator.HOLIDAYS, in order; subjects is the length of the list
HOLIDAYS ==
    << [name |-> "Christmas", start_month |-> 12, start_day |-> 10,
        end_month |-> 12, end_day |-> 26, subjects |-> 25, palette |-> TRUE],
       [name |-> "New Year", start_month |-> 12, start_day |-> 31,
        end_month |-> 1, end_day |-> 1, subjects |-> 40, palette |-> TRUE],
       [name |-> "Halloween", start_month |-> 10, start_day |-> 25,
        end_month |-> 10, end_day |-> 31, subjects |-> 10, palette |-> TRUE],
       [name |-> "July 4th", start_month |-> 7, start_day |-> 4,
        end_month |-> 7, end_day |-> 4, subjects |-> 10, palette |-> TRUE],
       [name |-> "Valentine's Day", start_month |-> 2, start_day |-> 14,
        end_month |-> 2, end_day |-> 14, subjects |-> 10, palette |-> TRUE] >>

\* the for loop of _get_current_season_info: the index of the first holiday
\* that is active on the date, 0 when none is (active_holiday = None)
ActiveHoliday(date) ==
    LET active == {i \in 1..Len(HOLIDAYS) : IsActive(HOLIDAYS[i], date)}
    IN IF active = {} THEN 0 ELSE CHOOSE i \in active : \A j \in active : i <= j

\* season of _get_current_season_info
Season(month) ==
    IF month \in {12, 1, 2} THEN "Winter"
    ELSE IF month \in {3, 4, 5} THEN "Spring"
    ELSE IF month \in {6, 7, 8} THEN "Summer"
    ELSE IF month \in {9, 10, 11} THEN "Autumn"
    ELSE "unknown"

\* WEATHER_LOCATION: not set, or the parts between its commas, each one a
\* text float() accepts ("num") or not ("bad")
NoLocation == [set |-> FALSE, parts |-> <<>>]
WeatherLocations ==
    {NoLocation} \cup
    [set : {TRUE}, parts : UNION {[1..n -> {"num", "bad"}] : n \in 1..3}]

\* lines 329-335: lat and lon after the try; an assignment made before the
\* ValueError stays
ParseLocation(location) ==
    IF ~location.set \/ Len(location.parts) # 2 THEN [lat |-> None, lon |-> None]
    ELSE IF location.parts[1] = "bad" THEN [lat |-> None, lon |-> None]
    ELSE IF location.parts[2] = "bad" THEN [lat |-> "float", lon |-> None]
    ELSE [lat |-> "float", lon |-> "float"]

\* Mutant: one coordinate is enough for the lookup.
M_WeatherLookupDue_EitherCoordinate(coords) == coords.lat # None \/ coords.lon # None

\* if lat is not None and lon is not None
WeatherLookupDue(coords) == coords.lat # None /\ coords.lon # None

\* values of secure_random.random(), in hundredths
RandomDraws == {0, 59, 60, 74, 75, 99}

\* Mutant: Winter is given the probability of Autumn.
M_OutdoorProbability_WinterAsAutumn(season) ==
    IF season \in {"Spring", "Summer"} THEN 60 ELSE 75

\* outdoor_probability, in hundredths (lines 359-364)
OutdoorProbability(season) ==
    IF season \in {"Spring", "Summer"} THEN 60
    ELSE IF season = "Winter" THEN 100
    ELSE 75

\* scene_type (line 365)
SceneType(season, draw) ==
    IF draw < OutdoorProbability(season) THEN "outdoor" ELSE "indoor"

Block(kind, of) == [kind |-> kind, of |-> of, n |-> 0]

\* the n-th subject of a holiday's list
Subject(name, n) == [kind |-> "subject", of |-> name, n |-> n]

\* Mutant: the season blocks are appended on holidays too.
M_HolidayBlocks_WithScene(h, hasWeather, pick) ==
    (IF hasWeather THEN <<Block("weather", "holiday")>> ELSE <<>>)
    \o <<Block("modifier", HOLIDAYS[h].name), Subject(HOLIDAYS[h].name, pick)>>
    \o (IF HOLIDAYS[h].palette THEN <<Block("palette", HOLIDAYS[h].name)>> ELSE <<>>)
    \o <<Block("outdoor", "scene")>>

\* the holiday branch (lines 374-384)
HolidayBlocks(h, hasWeather, pick) ==
    (IF hasWeather THEN <<Block("weather", "holiday")>> ELSE <<>>)
    \o <<Block("modifier", HOLIDAYS[h].name), Subject(HOLIDAYS[h].name, pick)>>
    \o (IF HOLIDAYS[h].palette THEN <<Block("palette", HOLIDAYS[h].name)>> ELSE <<>>)

\* the indoor and the outdoor branch (from line 386)
SceneBlocks(scene, hasWeather, window) ==
    IF scene = "indoor"
    THEN (IF hasWeather /\ window THEN <<Block("weather", "window")>> ELSE <<>>)
         \o <<Block("indoor", "still-life")>>
    ELSE (IF hasWeather THEN <<Block("weather", "outdoor")>> ELSE <<>>)
         \o <<Block("outdoor", "scene")>>

InitPrompt ==
    /\ prPc = "start"
    /\ prDate \in Dates
    /\ prLocation \in WeatherLocations
    /\ prInfo = [season |-> "unknown", holiday |-> 0]
    /\ prCoords = [lat |-> None, lon |-> None]
    /\ prLookups = 0
    /\ prModifier = ""
    /\ prScene = None
    /\ prPrompt = <<>>

IdlePrompt ==
    /\ prPc = "idle"
    /\ prDate = [month |-> 1, day |-> 1]
    /\ prLocation = NoLocation
    /\ prInfo = [season |-> "unknown", holiday |-> 0]
    /\ prCoords = [lat |-> None, lon |-> None]
    /\ prLookups = 0
    /\ prModifier = ""
    /\ prScene = None
    /\ prPrompt = <<>>

\* date_info = self._get_current_season_info()
PrSeasonInfo ==
    /\ prPc = "start"
    /\ prPc' = "location"
    /\ prInfo' = [season |-> Season(prDate.month), holiday |-> ActiveHoliday(prDate)]
    /\ UNCHANGED <<prDate, prLocation, prCoords, prLookups, prModifier, prScene, prPrompt>>
    /\ UNCHANGED <<fileVars, notPrVars>>

\* lines 324-335: WEATHER_LOCATION is read and parsed
PrParseLocation ==
    /\ prPc = "location"
    /\ prPc' = "weather"
    /\ prCoords' = ParseLocation(prLocation)
    /\ UNCHANGED <<prDate, prLocation, prInfo, prLookups, prModifier, prScene, prPrompt>>
    /\ UNCHANGED <<fileVars, notPrVars>>

\* lines 337-350: get_current_weather is called with both coordinates; it
\* returns None or a dict, whose modifier may be empty
PrWeather ==
    /\ prPc = "weather"
    /\ prPc' = "scene"
    /\ IF WeatherLookupDue(prCoords)
       THEN /\ prLookups' = prLookups + 1
            /\ prModifier' \in {"", "modifier"}
       ELSE UNCHANGED <<prLookups, prModifier>>
    /\ UNCHANGED <<prDate, prLocation, prInfo, prCoords, prScene, prPrompt>>
    /\ UNCHANGED <<fileVars, notPrVars>>

\* lines 359-365: the scene type
PrScene ==
    /\ prPc = "scene"
    /\ prPc' = "compose"
    /\ \E draw \in RandomDraws : prScene' = SceneType(prInfo.season, draw)
    /\ UNCHANGED <<prDate, prLocation, prInfo, prCoords, prLookups, prModifier, prPrompt>>
    /\ UNCHANGED <<fileVars, notPrVars>>

\* lines 368-372 and from 374 to the return: the prompt is put together
PrCompose ==
    /\ prPc = "compose"
    /\ prPc' = "done"
    /\ LET h == prInfo.holiday
           hasWeather == prModifier # ""
       IN \E window \in BOOLEAN, pick \in 1..MaxSubjects :
            prPrompt' = <<Block("intro", prInfo.season)>>
                        \o (IF h # 0
                            THEN HolidayBlocks(h, hasWeather, pick)
                            ELSE SceneBlocks(prScene, hasWeather, window))
                        \o <<Block("style", "rules")>>
    /\ UNCHANGED <<prDate, prLocation, prInfo, prCoords, prLookups, prModifier, prScene>>
    /\ UNCHANGED <<fileVars, notPrVars>>

NextPrompt ==
    \/ PrSeasonInfo
    \/ PrParseLocation
    \/ PrWeather
    \/ PrScene
    \/ PrCompose

(***************************************************************************)
(* test_image_enhancement.py: apply_enhancement.  An image is its size and *)
(* the processing steps applied to the pixels it was loaded with; factors  *)
(* are in tenths (10 is the factor 1.0).                                   *)
(***************************************************************************)
\* the largest number of times apply_enhancement is applied in a row
MaxApplications == 2

Factors == {5, 10, 15}

EnhancementParams ==
    [sharpness : Factors, contrast : Factors, brightness : Factors, color : Factors,
     upscale_factor : Factors, unsharp_mask : BOOLEAN]

\* get_preset_params()["original"] (enhancement_presets.py)
OriginalPreset ==
    [sharpness |-> 10, contrast |-> 10, brightness |-> 10, color |-> 10,
     upscale_factor |-> 10, unsharp_mask |-> FALSE]

InputImages ==
    [width : {1024, 1792}, height : {1024}, steps : {<<>>}]

\* Mutant: every factor other than 1.0 resizes.
M_UpscaleDue_NotNeutral(factor) == factor # 10

\* if upscale_factor > 1.0
UpscaleDue(factor) == factor > 10

\* if brightness != 1.0 (and the same test for color, contrast, sharpness)
AdjustDue(factor) == factor # 10

\* one conditional step of apply_enhancement
Step(due, op, factor, image) ==
    IF due
    THEN [image EXCEPT !.steps = Append(@, [op |-> op, factor |-> factor])]
    ELSE image

\* result.resize((int(width * factor), int(height * factor)), LANCZOS)
Resize(due, factor, image) ==
    IF due
    THEN [width |-> (image.width * factor) \div 10,
          height |-> (image.height * factor) \div 10,
          steps |-> Append(image.steps, [op |-> "resize", factor |-> factor])]
    ELSE image

\* apply_enhancement(image, **params): a copy, then the steps in order
ApplyEnhancement(image, params) ==
    LET resized == Resize(UpscaleDue(params.upscale_factor), params.upscale_factor, image)
        bright == Step(AdjustDue(params.brightness), "brightness", params.brightness, resized)
        coloured == Step(AdjustDue(params.color), "color", params.color, bright)
        contrasted == Step(AdjustDue(params.contrast), "contrast", params.contrast, coloured)
        sharpened == Step(AdjustDue(params.sharpness), "sharpness", params.sharpness, contrasted)
    IN Step(params.unsharp_mask, "unsharp", 0, sharpened)

InitEnhance ==
    /\ enPc = "apply"
    /\ enParams \in EnhancementParams
    /\ enInput \in InputImages
    /\ enImage = enInput
    /\ enCalls = 0

IdleEnhance ==
    /\ enPc = "idle"
    /\ enParams = OriginalPreset
    /\ enInput = [width |-> 1024, height |-> 1024, steps |-> <<>>]
    /\ enImage = enInput
    /\ enCalls = 0

\* enhanced = apply_enhancement(image, **params), on the result of the
\* application before
EnApply ==
    /\ enPc = "apply"
    /\ enCalls < MaxApplications
    /\ enImage' = ApplyEnhancement(enImage, enParams)
    /\ enCalls' = enCalls + 1
    /\ UNCHANGED <<enPc, enParams, enInput>>
    /\ UNCHANGED <<fileVars, notEnVars>>

NextEnhance ==
    \/ EnApply


(***************************************************************************)
(* WeatherService.get_weather_prompt_modifier (src/weather_service.py,     *)
(* lines 90-164): the list of modifiers is chosen by substring tests on    *)
(* the lowered condition text and by membership tests on the code, in the  *)
(* order clear, cloud, fog, rain, snow, thunder; random.choice then draws  *)
(* one of the five entries of the list.                                    *)
(***************************************************************************)
\* the entries of each list of modifiers (lines 102-148)
ModifiersPerList == 5

\* weather_data["condition"].lower(), character by character
ConditionLower(condition) ==
    CASE condition = "Unknown" -> <<"u", "n", "k", "n", "o", "w", "n">>
      [] condition = "Clear sky" ->
           <<"c", "l", "e", "a", "r", " ", "s", "k", "y">>
      [] condition = "Mainly clear" ->
           <<"m", "a", "i", "n", "l", "y", " ", "c", "l", "e", "a", "r">>
      [] condition = "Partly cloudy" ->
           <<"p", "a", "r", "t", "l", "y", " ", "c", "l", "o", "u", "d", "y">>
      [] condition = "Overcast" ->
           <<"o", "v", "e", "r", "c", "a", "s", "t">>
      [] condition = "Fog" ->
           <<"f", "o", "g">>
      [] condition = "Depositing rime fog" ->
           <<"d", "e", "p", "o", "s", "i", "t", "i", "n", "g", " ", "r", "i", "m", "e", " ", "f", "o", "g">>
      [] condition = "Light drizzle" ->
           <<"l", "i", "g", "h", "t", " ", "d", "r", "i", "z", "z", "l", "e">>
      [] condition = "Moderate drizzle" ->
           <<"m", "o", "d", "e", "r", "a", "t", "e", " ", "d", "r", "i", "z", "z", "l", "e">>
      [] condition = "Dense drizzle" ->
           <<"d", "e", "n", "s", "e", " ", "d", "r", "i", "z", "z", "l", "e">>
      [] condition = "Light freezing drizzle" ->
           <<"l", "i", "g", "h", "t", " ", "f", "r", "e", "e", "z", "i", "n", "g", " ", "d", "r", "i", "z", "z", "l", "e">>
      [] condition = "Dense freezing drizzle" ->
           <<"d", "e", "n", "s", "e", " ", "f", "r", "e", "e", "z", "i", "n", "g", " ", "d", "r", "i", "z", "z", "l", "e">>
      [] condition = "Slight rain" ->
           <<"s", "l", "i", "g", "h", "t", " ", "r", "a", "i", "n">>
      [] condition = "Moderate rain" ->
           <<"m", "o", "d", "e", "r", "a", "t", "e", " ", "r", "a", "i", "n">>
      [] condition = "Heavy rain" ->
           <<"h", "e", "a", "v", "y", " ", "r", "a", "i", "n">>
      [] condition = "Light freezing rain" ->
           <<"l", "i", "g", "h", "t", " ", "f", "r", "e", "e", "z", "i", "n", "g", " ", "r", "a", "i", "n">>
      [] condition = "Heavy freezing rain" ->
           <<"h", "e", "a", "v", "y", " ", "f", "r", "e", "e", "z", "i", "n", "g", " ", "r", "a", "i", "n">>
      [] condition = "Slight snow fall" ->
           <<"s", "l", "i", "g", "h", "t", " ", "s", "n", "o", "w", " ", "f", "a", "l", "l">>
      [] condition = "Moderate snow fall" ->
           <<"m", "o", "d", "e", "r", "a", "t", "e", " ", "s", "n", "o", "w", " ", "f", "a", "l", "l">>
      [] condition = "Heavy snow fall" ->
           <<"h", "e", "a", "v", "y", " ", "s", "n", "o", "w", " ", "f", "a", "l", "l">>
      [] condition = "Snow grains" ->
           <<"s", "n", "o", "w", " ", "g", "r", "a", "i", "n", "s">>
      [] condition = "Slight rain showers" ->
           <<"s", "l", "i", "g", "h", "t", " ", "r", "a", "i", "n", " ", "s", "h", "o", "w", "e", "r", "s">>
      [] condition = "Moderate rain showers" ->
           <<"m", "o", "d", "e", "r", "a", "t", "e", " ", "r", "a", "i", "n", " ", "s", "h", "o", "w", "e", "r", "s">>
      [] condition = "Violent rain showers" ->
           <<"v", "i", "o", "l", "e", "n", "t", " ", "r", "a", "i", "n", " ", "s", "h", "o", "w", "e", "r", "s">>
      [] condition = "Slight snow showers" ->
           <<"s", "l", "i", "g", "h", "t", " ", "s", "n", "o", "w", " ", "s", "h", "o", "w", "e", "r", "s">>
      [] condition = "Heavy snow showers" ->
           <<"h", "e", "a", "v", "y", " ", "s", "n", "o", "w", " ", "s", "h", "o", "w", "e", "r", "s">>
      [] condition = "Thunderstorm" ->
           <<"t", "h", "u", "n", "d", "e", "r", "s", "t", "o", "r", "m">>
      [] condition = "Thunderstorm with slight hail" ->
           <<"t", "h", "u", "n", "d", "e", "r", "s", "t", "o", "r", "m", " ", "w", "i", "t", "h", " ", "s", "l", "i", "g", "h", "t", " ", "h", "a", "i", "l">>
      [] condition = "Thunderstorm with heavy hail" ->
           <<"t", "h", "u", "n", "d", "e", "r", "s", "t", "o", "r", "m", " ", "w", "i", "t", "h", " ", "h", "e", "a", "v", "y", " ", "h", "a", "i", "l">>
      [] OTHER -> <<>>

\* the words the condition text is searched for (lines 151-162)
Word(w) ==
    CASE w = "clear" -> <<"c", "l", "e", "a", "r">>
      [] w = "cloud" -> <<"c", "l", "o", "u", "d">>
      [] w = "fog" -> <<"f", "o", "g">>
      [] w = "rain" -> <<"r", "a", "i", "n">>
      [] w = "drizzle" -> <<"d", "r", "i", "z", "z", "l", "e">>
      [] w = "snow" -> <<"s", "n", "o", "w">>
      [] w = "thunder" -> <<"t", "h", "u", "n", "d", "e", "r">>

\* Python's "word in text" for strings: the word occurs as a substring
Contains(word, text) ==
    \E i \in 0..(Len(text) - Len(word)) :
        SubSeq(text, i + 1, i + Len(word)) = word

\* "code in [...]": code is the integer of the record, or None
CodeIn(code, list) == code.present /\ code.val \in list

\* the if/elif chain of lines 151-162: the list a record selects, "" when
\* the function returns the empty string
ModifierList(data) ==
    LET condition == ConditionLower(data.condition)
        code == data.code
        has(w) == Contains(Word(w), condition)
    IN IF has("clear") \/ CodeIn(code, {0}) THEN "clear"
       ELSE IF has("cloud") \/ CodeIn(code, {2, 3}) THEN "cloudy"
       ELSE IF has("fog") \/ CodeIn(code, {45, 48}) THEN "fog"
       ELSE IF has("rain") \/ has("drizzle")
               \/ CodeIn(code, {51, 53, 55, 61, 63, 65, 80, 81, 82}) THEN "rain"
       ELSE IF has("snow") \/ CodeIn(code, {71, 73, 75, 77, 85, 86}) THEN "snow"
       ELSE IF has("thunder") \/ CodeIn(code, {95, 96, 99}) THEN "thunder"
       ELSE ""

\* the records get_current_weather returns (lines 78-82), and its None
WeatherRecords ==
    {[kind |-> "None", condition |-> "None", code |-> MissingCode]} \cup
    {[kind |-> "dict", condition |-> WeatherDescription(c), code |-> c] :
        c \in WeatherCodeValues}

NoModifier == [list |-> "", entry |-> 0]

InitModifier ==
    /\ mdPc = "start"
    /\ mdData \in WeatherRecords
    /\ mdPick \in 1..ModifiersPerList
    /\ mdOut = NoModifier

IdleModifier ==
    /\ mdPc = "idle"
    /\ mdData = [kind |-> "None", condition |-> "None", code |-> MissingCode]
    /\ mdPick = 1
    /\ mdOut = NoModifier

\* lines 95-96: "if not weather_data: return ''"
MdNoData ==
    /\ mdPc = "start"
    /\ mdData.kind = "None"
    /\ mdPc' = "done"
    /\ mdOut' = NoModifier
    /\ UNCHANGED <<mdData, mdPick>>
    /\ UNCHANGED <<fileVars, notMdVars>>

\* lines 98-164: the list is selected and random.choice draws its entry
MdChoose ==
    /\ mdPc = "start"
    /\ mdData.kind = "dict"
    /\ mdPc' = "done"
    /\ LET list == ModifierList(mdData)
       IN mdOut' = IF list = "" THEN NoModifier
                   ELSE [list |-> list, entry |-> mdPick]
    /\ UNCHANGED <<mdData, mdPick>>
    /\ UNCHANGED <<fileVars, notMdVars>>

NextModifier ==
    \/ MdNoData
    \/ MdChoose


(***************************************************************************)
(* The timeouts of one upload attempt of upload_image (upload_image.py,    *)
(* lines 410-416 and 468-493, with with_timeout and the waits of           *)
(* _patient_upload).  Sizes are whole MiB and times whole seconds.         *)
(***************************************************************************)
\* the largest file, in MiB
MaxFileMiB == 64

\* how long the TV takes per MiB: 1 s is the 1 MiB/s the code assumes
SecondsPerMiB == {1, 2, 10}

\* expected_seconds = file_size / (1 * 1024 * 1024)
ExpectedSeconds(mib) == mib

Max(a, b) == IF a >= b THEN a ELSE b

\* dynamic_timeout = max(300, int(expected_seconds * 5))
DynamicTimeout(mib) == Max(300, 5 * ExpectedSeconds(mib))

\* file_size > 5 * 1024 * 1024: the patient upload is used
LargeFile(mib) == mib > 5

\* hard_timeout = 60 if file_size > 5 * 1024 * 1024 else 30
HardTimeout(mib) == IF LargeFile(mib) THEN 60 ELSE 30

\* what the worker thread does before art().upload starts: _patient_upload
\* sleeps 10 s and, when it closed a connection, 5 s more (lines 267, 277);
\* the standard upload starts at once
PreUploadWait(mib, closed) ==
    IF LargeFile(mib) THEN (IF closed THEN 15 ELSE 10) ELSE 0

\* with_timeout: thread.join(timeout) and then thread.is_alive(); a thread
\* that ends at the very moment the join gives up may be seen either way
AliveAfterJoin(needs, timeout) ==
    IF needs > timeout THEN {TRUE}
    ELSE IF needs = timeout THEN {TRUE, FALSE}
    ELSE {FALSE}

InitDeadline ==
    /\ dlPc = "start"
    /\ dlMiB \in 1..MaxFileMiB
    /\ dlRate \in SecondsPerMiB
    /\ dlClosed \in BOOLEAN
    /\ dlDynamic = 0
    /\ dlHard = 0
    /\ dlNeeds = 0
    /\ dlOutcome = "None"

IdleDeadline ==
    /\ dlPc = "idle"
    /\ dlMiB = 1
    /\ dlRate = 1
    /\ dlClosed = FALSE
    /\ dlDynamic = 0
    /\ dlHard = 0
    /\ dlNeeds = 0
    /\ dlOutcome = "None"

\* lines 414-416 and 468-470: the two timeouts are computed
DlTimeouts ==
    /\ dlPc = "start"
    /\ dlPc' = "attempt"
    /\ dlDynamic' = DynamicTimeout(dlMiB)
    /\ dlHard' = HardTimeout(dlMiB)
    /\ UNCHANGED <<dlMiB, dlRate, dlClosed, dlNeeds, dlOutcome>>
    /\ UNCHANGED <<fileVars, notDlVars>>

\* lines 474-493: with_timeout(hard_timeout, ...) runs the upload in a
\* thread, which needs its waits and the transfer; a thread that is alive
\* after the join makes the attempt an UploadTimeoutError
DlAttempt ==
    /\ dlPc = "attempt"
    /\ dlPc' = "joined"
    /\ LET needs == PreUploadWait(dlMiB, dlClosed) + dlRate * dlMiB
       IN /\ dlNeeds' = needs
          /\ \E alive \in AliveAfterJoin(needs, dlHard) :
                dlOutcome' = IF alive THEN "UploadTimeoutError" ELSE "returned"
    /\ UNCHANGED <<dlMiB, dlRate, dlClosed, dlDynamic, dlHard>>
    /\ UNCHANGED <<fileVars, notDlVars>>

NextDeadline ==
    \/ DlTimeouts
    \/ DlAttempt


(***************************************************************************)
(* The temporary patch of socket.socket.settimeout, as installed and       *)
(* undone by upload_image (upload_image.py, lines 418-447 and 543-555),    *)
(* by FrameTVPowerController (tv_power.py, lines 106-150, with turn_on     *)
(* and turn_off) and by websocket_timeout_patch (tv_utils.py).             *)
(*                                                                         *)
(* The value of socket.socket.settimeout is the sequence of the patches    *)
(* wrapped around the library's function, the outermost last; <<>> is the  *)
(* library's function itself.  A with block of websocket_timeout_patch     *)
(* may hold further with blocks, calls of upload_image and calls of        *)
(* turn_on / turn_off; each of these is a frame of ptStack while it runs.  *)
(***************************************************************************)
\* with blocks inside one another, at most
MaxNesting == 2

\* patching operations started in one run, at most
MaxPatchOps == 4

\* original_settimeout = None: nothing saved
NothingSaved == [has |-> FALSE, fn |-> <<>>]
Saved(fn) == [has |-> TRUE, fn |-> fn]

\* a patched_settimeout closure around the function it was given
Patched(original, by) == Append(original, by)

\* upload_image, lines 549-553: if original_settimeout is not None
UploadRestore(saved, current) == IF saved.has THEN saved.fn ELSE current

\* websocket_timeout_patch, the finally block (lines 63-72)
WithRestore(applied, saved, current) ==
    IF applied /\ saved.has THEN saved.fn ELSE current

\* _apply_websocket_timeout_patch: nothing is done when the patch is applied
ApplyDue(applied) == ~applied

\* _restore_websocket_timeout_patch (lines 140-150)
ControllerRestore(applied, saved, current) ==
    IF ~applied \/ ~saved.has THEN current ELSE saved.fn

Frame(kind, saved, applied) ==
    [kind |-> kind, saved |-> saved, applied |-> applied, connected |-> FALSE,
     before |-> ptSettimeout, tvBefore |-> ptTvTimeout]

NoExit == [kind |-> "none", how |-> "none", applied |-> FALSE]

InitPatch ==
    /\ ptStack = <<>>
    /\ ptSettimeout = <<>>
    /\ ptTvTimeout = "original"
    /\ ptApplied = FALSE
    /\ ptOriginal = NothingSaved
    /\ ptOps = 0
    /\ ptLast = NoExit
    /\ ptOn = TRUE

IdlePatch ==
    /\ ptStack = <<>>
    /\ ptSettimeout = <<>>
    /\ ptTvTimeout = "original"
    /\ ptApplied = FALSE
    /\ ptOriginal = NothingSaved
    /\ ptOps = 0
    /\ ptLast = NoExit
    /\ ptOn = FALSE

ptController == <<ptApplied, ptOriginal>>

Top == ptStack[Len(ptStack)]
Pop == SubSeq(ptStack, 1, Len(ptStack) - 1)
WithDepth == Cardinality({i \in DOMAIN ptStack : ptStack[i].kind = "with"})

\* code that may start a patching operation is running: the top level of
\* the script, or the body of a with block
InBody == ptOn /\ (IF ptStack = <<>> THEN TRUE ELSE Top.kind = "with")

\* websocket_timeout_patch up to the yield (lines 32-59)
PtWithEnter ==
    /\ InBody
    /\ ptOps < MaxPatchOps
    /\ WithDepth < MaxNesting
    /\ ptOps' = ptOps + 1
    /\ ptStack' = Append(ptStack, Frame("with", Saved(ptSettimeout), TRUE))
    /\ ptSettimeout' = Patched(ptSettimeout, "with")
    /\ UNCHANGED <<ptTvTimeout, ptController, ptLast, ptOn>>
    /\ UNCHANGED <<fileVars, notPtVars>>

\* websocket_timeout_patch after the yield: the body returned or raised,
\* the finally block runs either way (lines 59-72)
PtWithExit ==
    /\ ptOn
    /\ ptStack # <<>>
    /\ Top.kind = "with"
    /\ \E how \in {"return", "raise"} :
         ptLast' = [kind |-> "with", how |-> how, applied |-> Top.applied]
    /\ ptSettimeout' = WithRestore(Top.applied, Top.saved, ptSettimeout)
    /\ ptStack' = Pop
    /\ UNCHANGED <<ptTvTimeout, ptController, ptOps, ptOn>>
    /\ UNCHANGED <<fileVars, notPtVars>>

\* upload_image, lines 418-447: the TV object's timeout is raised and, when
\* the websocket module can be imported, settimeout is patched
PtUploadEnter ==
    /\ InBody
    /\ ptOps < MaxPatchOps
    /\ ptOps' = ptOps + 1
    /\ ptTvTimeout' = "dynamic"
    /\ \E imported \in BOOLEAN :
         IF imported
         THEN /\ ptStack' = Append(ptStack, Frame("upload", Saved(ptSettimeout), TRUE))
              /\ ptSettimeout' = Patched(ptSettimeout, "upload")
         ELSE /\ ptStack' = Append(ptStack, Frame("upload", NothingSaved, FALSE))
              /\ UNCHANGED ptSettimeout
    /\ UNCHANGED <<ptController, ptLast, ptOn>>
    /\ UNCHANGED <<fileVars, notPtVars>>

\* upload_image, lines 543-555: the body is left by return or by raise and
\* the finally block restores the timeout attribute and settimeout
PtUploadExit ==
    /\ ptOn
    /\ ptStack # <<>>
    /\ Top.kind = "upload"
    /\ \E how \in {"return", "raise"} :
         ptLast' = [kind |-> "upload", how |-> how, applied |-> Top.applied]
    /\ ptTvTimeout' = Top.tvBefore
    /\ ptSettimeout' = UploadRestore(Top.saved, ptSettimeout)
    /\ ptStack' = Pop
    /\ UNCHANGED <<ptController, ptOps, ptOn>>
    /\ UNCHANGED <<fileVars, notPtVars>>

\* turn_on / turn_off is called on the controller
PtTurnEnter ==
    /\ InBody
    /\ ptOps < MaxPatchOps
    /\ ptOps' = ptOps + 1
    /\ ptStack' = Append(ptStack, Frame("turn", NothingSaved, FALSE))
    /\ UNCHANGED <<ptSettimeout, ptTvTimeout, ptController, ptLast, ptOn>>
    /\ UNCHANGED <<fileVars, notPtVars>>

\* _connect_to_tv, whose first step is _apply_websocket_timeout_patch
\* (tv_power.py, lines 106-138 and 160); turn_on and turn_off call it once
PtTurnConnect ==
    /\ ptOn
    /\ ptStack # <<>>
    /\ Top.kind = "turn"
    /\ ~Top.connected
    /\ ptStack' = [ptStack EXCEPT ![Len(ptStack)] =
                      [@ EXCEPT !.connected = TRUE, !.applied = TRUE]]
    /\ IF ApplyDue(ptApplied)
       THEN /\ ptOriginal' = Saved(ptSettimeout)
            /\ ptSettimeout' = Patched(ptSettimeout, "controller")
            /\ ptApplied' = TRUE
       ELSE UNCHANGED <<ptOriginal, ptSettimeout, ptApplied>>
    /\ UNCHANGED <<ptTvTimeout, ptOps, ptLast, ptOn>>
    /\ UNCHANGED <<fileVars, notPtVars>>

\* turn_on / turn_off returns on one of its paths; the finally clause calls
\* _restore_websocket_timeout_patch (tv_power.py, lines 385-387, 443-445)
PtTurnExit ==
    /\ ptOn
    /\ ptStack # <<>>
    /\ Top.kind = "turn"
    /\ \E how \in {"return", "raise"} :
         ptLast' = [kind |-> "turn", how |-> how, applied |-> Top.applied]
    /\ ptSettimeout' = ControllerRestore(ptApplied, ptOriginal, ptSettimeout)
    /\ ptApplied' = IF ~ptApplied \/ ~ptOriginal.has THEN ptApplied ELSE FALSE
    /\ ptStack' = Pop
    /\ UNCHANGED <<ptOriginal, ptTvTimeout, ptOps, ptOn>>
    /\ UNCHANGED <<fileVars, notPtVars>>

\* dev/test_tv_power.py, test_tv_connection (line 52): the script's first
\* step calls _connect_to_tv on a controller of its own, outside turn_on and
\* turn_off; _apply_websocket_timeout_patch runs (tv_power.py, line 160),
\* nothing restores, and the controller is given up when the function returns
PtDirectConnect ==
    /\ ptOn
    /\ ptStack = <<>>
    /\ ptOps = 0
    /\ ptOps' = 1
    /\ ptSettimeout' = IF ApplyDue(FALSE) THEN Patched(ptSettimeout, "controller")
                                         ELSE ptSettimeout
    /\ ptLast' = [kind |-> "connect", how |-> "return", applied |-> TRUE]
    /\ UNCHANGED <<ptStack, ptTvTimeout, ptController, ptOn>>
    /\ UNCHANGED <<fileVars, notPtVars>>

NextPatch ==
    \/ PtDirectConnect
    \/ PtWithEnter
    \/ PtWithExit
    \/ PtUploadEnter
    \/ PtUploadExit
    \/ PtTurnEnter
    \/ PtTurnConnect
    \/ PtTurnExit

(***************************************************************************)
(* The specifications: one machine runs, the others stay idle.             *)
(***************************************************************************)
InitSpecRetry ==
    InitRetry /\ IdleFiles /\ IdleSa /\ IdleUp /\ IdleRun /\ IdlePw /\ IdleCal /\ IdleWx /\ IdleStore /\ IdleApp /\ IdlePrompt /\ IdleEnhance /\ IdleModifier /\ IdleDeadline /\ IdlePatch

SpecRetry == InitSpecRetry /\ [][NextRetry]_vars

InitSpecSetActive ==
    InitSa /\ InitFiles /\ IdleRetry /\ IdleUp /\ IdleRun /\ IdlePw /\ IdleCal /\ IdleWx /\ IdleStore /\ IdleApp /\ IdlePrompt /\ IdleEnhance /\ IdleModifier /\ IdleDeadline /\ IdlePatch

SpecSetActive == InitSpecSetActive /\ [][NextSa]_vars

InitSpecUpload ==
    InitUp /\ InitFiles /\ IdleRetry /\ IdleSa /\ IdleRun /\ IdlePw /\ IdleCal /\ IdleWx /\ IdleStore /\ IdleApp /\ IdlePrompt /\ IdleEnhance /\ IdleModifier /\ IdleDeadline /\ IdlePatch

SpecUpload == InitSpecUpload /\ [][NextUp]_vars

InitSpecRun ==
    InitRun /\ InitFiles /\ IdleRetry /\ IdleSa /\ IdleUp /\ IdlePw /\ IdleCal /\ IdleWx /\ IdleStore /\ IdleApp /\ IdlePrompt /\ IdleEnhance /\ IdleModifier /\ IdleDeadline /\ IdlePatch

SpecRun == InitSpecRun /\ [][NextRun]_vars

InitSpecPower ==
    InitPw /\ IdleFiles /\ IdleRetry /\ IdleSa /\ IdleUp /\ IdleRun /\ IdleCal /\ IdleWx /\ IdleStore /\ IdleApp /\ IdlePrompt /\ IdleEnhance /\ IdleModifier /\ IdleDeadline /\ IdlePatch

SpecPower == InitSpecPower /\ [][NextPw]_vars

InitSpecCalendar ==
    InitCal /\ IdleFiles /\ IdleRetry /\ IdleSa /\ IdleUp /\ IdleRun /\ IdlePw /\ IdleWx /\ IdleStore /\ IdleApp /\ IdlePrompt /\ IdleEnhance /\ IdleModifier /\ IdleDeadline /\ IdlePatch

SpecCalendar == InitSpecCalendar /\ [][NextCal]_vars

InitSpecWeather ==
    InitWx /\ IdleFiles /\ IdleRetry /\ IdleSa /\ IdleUp /\ IdleRun /\ IdlePw /\ IdleCal /\ IdleStore /\ IdleApp /\ IdlePrompt /\ IdleEnhance /\ IdleModifier /\ IdleDeadline /\ IdlePatch

SpecWeather == InitSpecWeather /\ [][NextWx]_vars

InitSpecStore ==
    InitStore /\ IdleRetry /\ IdleSa /\ IdleUp /\ IdleRun /\ IdlePw /\ IdleCal /\ IdleWx /\ IdleApp /\ IdlePrompt /\ IdleEnhance /\ IdleModifier /\ IdleDeadline /\ IdlePatch

SpecStore == InitSpecStore /\ [][NextStore]_vars

InitSpecApp ==
    InitApp /\ IdleRetry /\ IdleFiles /\ IdleSa /\ IdleUp /\ IdleRun /\ IdlePw /\ IdleCal /\ IdleWx /\ IdleStore /\ IdlePrompt /\ IdleEnhance /\ IdleModifier /\ IdleDeadline /\ IdlePatch

SpecApp == InitSpecApp /\ [][NextApp]_vars

InitSpecPrompt ==
    InitPrompt /\ IdleRetry /\ IdleFiles /\ IdleSa /\ IdleUp /\ IdleRun /\ IdlePw /\ IdleCal /\ IdleWx /\ IdleStore /\ IdleApp /\ IdleEnhance /\ IdleModifier /\ IdleDeadline /\ IdlePatch

SpecPrompt == InitSpecPrompt /\ [][NextPrompt]_vars

InitSpecEnhance ==
    InitEnhance /\ IdleRetry /\ IdleFiles /\ IdleSa /\ IdleUp /\ IdleRun /\ IdlePw /\ IdleCal /\ IdleWx /\ IdleStore /\ IdleApp /\ IdlePrompt /\ IdleModifier /\ IdleDeadline /\ IdlePatch

SpecEnhance == InitSpecEnhance /\ [][NextEnhance]_vars

InitSpecModifier ==
    InitModifier /\ IdleRetry /\ IdleFiles /\ IdleSa /\ IdleUp /\ IdleRun /\ IdlePw /\ IdleCal /\ IdleWx /\ IdleStore /\ IdleApp /\ IdlePrompt /\ IdleEnhance /\ IdleDeadline /\ IdlePatch

SpecModifier == InitSpecModifier /\ [][NextModifier]_vars

InitSpecDeadline ==
    InitDeadline /\ IdleRetry /\ IdleFiles /\ IdleSa /\ IdleUp /\ IdleRun /\ IdlePw /\ IdleCal /\ IdleWx /\ IdleStore /\ IdleApp /\ IdlePrompt /\ IdleEnhance /\ IdleModifier /\ IdlePatch

SpecDeadline == InitSpecDeadline /\ [][NextDeadline]_vars

InitSpecPatch ==
    InitPatch /\ IdleRetry /\ IdleFiles /\ IdleSa /\ IdleUp /\ IdleRun /\ IdlePw /\ IdleCal /\ IdleWx /\ IdleStore /\ IdleApp /\ IdlePrompt /\ IdleEnhance /\ IdleModifier /\ IdleDeadline

SpecPatch == InitSpecPatch /\ [][NextPatch]_vars


(***************************************************************************)
(* Claims about set_active_art (SpecSetActive).                            *)
(***************************************************************************)
MaxSelectCalls == SelectMaxAttempts + SelectMaxAttempts + 1 + BlindResends

\* The select_image calls one strategy may issue.
StrategyLimit(s) ==
    CASE s \in {"primary", "list"} -> SelectMaxAttempts
      [] s = "stored" -> 1
      [] s = "blind" -> BlindResends
      [] OTHER -> 0

\* A bound on the steps set_active_art still has to take: the body position,
\* the attempts its loops have left, and the body executions its wrapper has left.
SaPcBase ==
    [p \in {"done", "blind", "stored", "rest", "listsel", "list", "primary", "matte",
            "list0", "key2", "key1", "artmode", "reconnect", "avail", "start", "idle"} |->
        CASE p = "done" -> 0
          [] p = "idle" -> 0
          [] p = "blind" -> 1
          [] p = "stored" -> 5
          [] p = "rest" -> 6
          [] p = "listsel" -> 7
          [] p = "list" -> 23
          [] p = "primary" -> 24
          [] p = "matte" -> 40
          [] p = "list0" -> 41
          [] p = "key2" -> 42
          [] p = "key1" -> 43
          [] p = "artmode" -> 44
          [] p = "reconnect" -> 45
          [] p = "avail" -> 51
          [] p = "start" -> 52]

SaRank ==
    (SetActiveMaxAttempts - saWrapAttempts) * 53 + SaPcBase[saPc]
    + (IF saPc = "blind" THEN BlindResends - saBlind ELSE 0)
    + (IF saPc \in {"primary", "listsel"} THEN SelectMaxAttempts - saSelAttempts ELSE 0)
    + (IF saPc = "reconnect" THEN InitConnMaxAttempts - saInitAttempts ELSE 0)

SaBounded ==
    /\ saSelCalls.total <= MaxSelectCalls
    /\ saSelCalls.strategy # None => saSelCalls.n <= StrategyLimit(saSelCalls.strategy)
    /\ saBodyRuns <= 1
    /\ saPc = "done" => saResult \in {"True", "False"}
    /\ saPc \notin {"done", "idle"} => ENABLED NextSa
    /\ SaRank >= 0

\* C1: every invocation of set_active_art ends with True or False after a
\* bounded number of steps (every step lowers SaRank, no step is stuck before
\* the end), issues at most 34 select_image calls (15 primary, 15 by the list
\* lookup, 1 stored, 3 blind), and its body runs once only.
Thm_C1_BoundedHeuristics == [](SaBounded) /\ [][SaRank' < SaRank]_vars

\* All 34 select_image calls were issued and the invocation returned False.
Wit_C1_AllSelectsIssued ==
    /\ saPc = "done"
    /\ saResult = "False"
    /\ saSelCalls.total = MaxSelectCalls
    /\ saBodyRuns = 1

\* C2: set_active_art returns True if and only if some selection command of
\* the invocation completed without raising.
Cex_C2_TrueIffSomeSelectSucceeded ==
    saPc = "done" => ((saResult = "True") <=> (saOk # {}))

StrategyIndex(s) == CHOOSE i \in 1..Len(Strategies) : Strategies[i] = s

\* C3: the strategies are started in the order primary, list lookup, REST,
\* stored id (only if it differs from the passed id), blind resend; one is
\* started only when every earlier one has failed or been skipped; no select
\* with a list or stored id is issued before the primary attempt has failed.
Thm_C3_StrategyOrder ==
    /\ \A i, j \in 1..Len(saStarted) :
         i < j => StrategyIndex(saStarted[i]) < StrategyIndex(saStarted[j])
    /\ \A i \in 1..Len(saStarted) : \A e \in StrategySet :
         StrategyIndex(e) < StrategyIndex(saStarted[i])
            => saOutcome[e] \in {"failed", "skipped"}
    /\ (saSelLog["list"] # {} \/ saSelLog["stored"] # {}) => saOutcome["primary"] = "failed"
    /\ saSelLog["stored"] # {} => saStoredId # saContentId
    /\ \A s \in StrategySet :
         saOutcome[s] \in {"running", "ok", "failed"}
            <=> \E i \in 1..Len(saStarted) : saStarted[i] = s

\* All five strategies were started, each after the failure of the one before.
Wit_C3_AllStrategiesStarted ==
    /\ saPc = "done"
    /\ saStarted = Strategies
    /\ saSelLog["stored"] = {"idB"}

(***************************************************************************)
(* Claims about the retry wrapper (SpecRetry).                             *)
(***************************************************************************)
\* C5: with max_attempts = n >= 1 the function is invoked at most n times;
\* the first invocation that returns ends the call with its value; an
\* exception outside allowed_exceptions leaves at once, with no further
\* invocation; after n allowed exceptions the n-th is re-raised.
Thm_C5_RetryAtMostN ==
    (rPc # "idle" /\ rMax >= 1) =>
        /\ rCalls <= rMax
        /\ rCalls = Len(rExcs) + (IF rOut.kind = "return" THEN 1 ELSE 0)
        /\ rOut.kind = "return" => rPc = "ended" /\ rOut.val[2] = rCalls
        /\ \A i \in 1..Len(rExcs) :
             ~IsAllowed(rExcs[i].type) =>
                /\ i = Len(rExcs)
                /\ rCalls = i
                /\ rPc = "ended"
                /\ rOut = [kind |-> "raise", val |-> rExcs[i]]
        /\ (Len(rExcs) = rMax /\ \A i \in 1..Len(rExcs) : IsAllowed(rExcs[i].type)) =>
                /\ rPc = "ended"
                /\ rOut = [kind |-> "raise", val |-> rExcs[rMax]]
        /\ rOut.kind # "assert"

\* Three invocations raised allowed exceptions and the third was re-raised.
Wit_C5_NthExceptionReraised ==
    /\ rMax = 3
    /\ rCalls = 3
    /\ rPc = "ended"
    /\ rOut.kind = "raise"
    /\ rOut.val.call = 3
    /\ IsAllowed(rOut.val.type)


(***************************************************************************)
(* Claims about upload_image and with_timeout (SpecUpload).                *)
(***************************************************************************)
\* C4: whenever the body of upload_image fails with an exception, the body is
\* executed again until it succeeds or 8 executions have failed; stated here
\* for the two failures the claim names, the hard-timeout UploadTimeoutError
\* and the plain Exception "no content ID returned after all attempts".
Cex_C4_EveryFailureRetried ==
    (upPc = "ended" /\ upOut.kind = "raise"
        /\ upOut.val \in {"UploadTimeoutError", "Exception"})
    => upBodyRuns = UploadMaxAttempts

WtOutcomeSound ==
    upLast.kind # None =>
        /\ (upLast.kind = "timeout") <=> upLast.alive
        /\ (upLast.kind = "result") <=> (~upLast.alive /\ upLast.produced.kind = "return")
        /\ (upLast.kind = "exc") <=> (~upLast.alive /\ upLast.produced.kind = "raise")
        /\ upLast.kind \in {"result", "exc"} =>
              /\ upLast.val = upLast.produced.val
              /\ upLast.val.by = upLast.worker

\* the with_timeout call in progress ends with its worker thread alive
WtTimesOut == upPc = "join" /\ upPc' # "join" /\ upCur \in upRunning

\* C6: with_timeout returns f's result exactly when its thread ended without
\* exception before the is_alive test, re-raises f's exception exactly when
\* the thread ended with one, raises UploadTimeoutError exactly when the
\* thread is alive at the test; the thread is then left running; and what a
\* call returns or raises was stored by its own thread, never by another.
Thm_C6_WithTimeoutOutcome ==
    [](WtOutcomeSound) /\ [][WtTimesOut => upCur \in upRunning']_vars

\* A later call returned its own thread's result while the thread an earlier
\* call had given up on was still alive.
Wit_C6_ResultBesideAbandoned ==
    /\ upLast.kind = "result"
    /\ upLast.worker = 2
    /\ upLast.val.by = 2
    /\ 1 \in upRunning

\* C7: whenever the main thread resets the connection or starts the next
\* upload attempt, no earlier upload worker thread is still alive.
Cex_C7_NoConcurrentSessionUse == upOverlap \cap {"reset", "spawn"} = {}


(***************************************************************************)
(* Claims about DailyArtApp.run (SpecRun).                                 *)
(***************************************************************************)
\* C8: once run has obtained an image, generated or provided, it returns True
\* whatever the downstream stages do.
Cex_C8_TrueOnceImageObtained ==
    (runPc = "done" /\ runObtained) => runResult = "True"

\* C9: when upload is not skipped and the television is unreachable during
\* the whole run, run still obtains the image and returns True.
Cex_C9_UnreachableTvNonFatal ==
    (runPc = "done" /\ ~runSkipUpload /\ ~runTvEverUp)
    => (runObtained /\ runResult = "True")

\* C10: every return from run leaves intermediate_files empty.
Cex_C10_EveryReturnCleansUp ==
    runPc = "done" => runIntermediate = <<>>


\* The paths of a user-provided image.
UserPaths == {"custom", "customGen"}

\* C11: a user-provided image is never added to intermediate_files, whatever
\* directory it lives in and whichever of the enhancement and upscale stages
\* succeed.
Cex_C11_CustomImageNeverTracked ==
    \A i \in 1..Len(runIntermediate) : runIntermediate[i] \notin UserPaths

\* The operations of run that talk to the television.
TvOps == {"connect", "probe", "upload", "matte", "select"}

\* With skip_upload, run has done nothing with the television.
RunSkipNoTvOperation ==
    runSkipUpload =>
        /\ \A i \in 1..Len(runLog) : runLog[i].op \notin TvOps
        /\ runInitAttempts = 0
        /\ runContentId = None
        /\ runActive = <<>>

\* C12: with skip_upload, run does no TV operation (no connection, probe,
\* upload, matte change or select) and, once an image is available, returns
\* True after cleanup.
Cex_C12_SkipUploadNoTvReturnsTrue ==
    /\ RunSkipNoTvOperation
    /\ (runSkipUpload /\ runPc = "done" /\ runObtained) =>
           (runResult = "True" /\ runExit = 279 /\ runIntermediate = <<>>)


\* The stages of run, in the order the claim gives them.
StageOps == {"image", "enhance", "upscale", "upload", "select"}

StageIndex(op) ==
    CASE op = "image" -> 1
      [] op = "enhance" -> 2
      [] op = "upscale" -> 3
      [] op = "upload" -> 4
      [] op = "select" -> 5
      [] OTHER -> 0

\* The entries of the log before position k that satisfy: stage op ended with out.
StageEnded(k, op, out) ==
    \E i \in 1..(k - 1) : runLog[i].op = op /\ runLog[i].out = out

\* The image step 1 obtained, read from the log.
ObtainedImage(k) ==
    IF \E i \in 1..(k - 1) : runLog[i].op = "image" /\ runLog[i].out = "exists"
    THEN runCustomImage
    ELSE "generated"

\* The output of the latest stage that succeeded before position k of the log.
LatestOutput(k) ==
    IF StageEnded(k, "upscale", "ok") THEN "upscaled"
    ELSE IF StageEnded(k, "enhance", "ok") THEN "enhanced"
    ELSE ObtainedImage(k)

RunStagesInOrder ==
    /\ \A i, j \in 1..Len(runLog) :
         (i < j /\ runLog[i].op \in StageOps /\ runLog[j].op \in StageOps) =>
             \/ StageIndex(runLog[i].op) < StageIndex(runLog[j].op)
             \/ runLog[i].op = "select" /\ runLog[j].op = "select"
    /\ \A k \in 1..Len(runLog) :
         runLog[k].op \in StageOps \ {"image"} =>
             \E i \in 1..(k - 1) : runLog[i].op = "image" /\ runLog[i].out \in {"exists", "path"}
    /\ \A k \in 1..Len(runLog) :
         runLog[k].op = "upload" => runLog[k].arg = LatestOutput(k)
    /\ runPc \in {"afterImage", "probe", "upload"} => runImagePath = LatestOutput(Len(runLog) + 1)

\* a stage has just ended in failure
StageFails(op) ==
    /\ Len(runLog') = Len(runLog) + 1
    /\ runLog'[Len(runLog')].op = op
    /\ runLog'[Len(runLog')].out = "failed"

\* C13: the stages of run execute in the order obtain, enhance, upscale,
\* upload, activate; the image given to the upload step is the output of the
\* latest of the stages that succeeded (upscaled, else enhanced, else the
\* generated or provided image); a failed enhancement goes on to the upscale
\* step and a failed upscale goes on to the steps after it.
Thm_C13_StageOrderAndLatestImage ==
    /\ [](RunStagesInOrder)
    /\ [][(StageFails("enhance") => runPc' = "upscale")
          /\ (StageFails("upscale") => runPc' = "afterImage")]_vars

\* The enhancement failed, the upscale succeeded, the upscaled file was
\* uploaded and then activated.
Wit_C13_UpscaledAfterFailedEnhance ==
    /\ runPc = "done"
    /\ \E e, u, l, a \in 1..Len(runLog) :
         /\ e < u /\ u < l /\ l < a
         /\ runLog[e].op = "enhance" /\ runLog[e].out = "failed"
         /\ runLog[u].op = "upscale" /\ runLog[u].out = "ok"
         /\ runLog[l].op = "upload" /\ runLog[l].arg = "upscaled" /\ runLog[l].out = "id"
         /\ runLog[a].op = "select" /\ runLog[a].out = "true"

\* The upload calls run has made.
UploadCalls == {i \in 1..Len(runLog) : runLog[i].op = "upload"}

\* C14: when the upload call of run fails (it raises), the upload is tried
\* again before run gives up on it.
Cex_C14_UploadRetried ==
    (runPc = "done" /\ \E i \in UploadCalls : runLog[i].out = "raise")
    => Cardinality(UploadCalls) >= 2


(***************************************************************************)
(* Claims about tv_power.py (SpecPower).                                   *)
(***************************************************************************)
\* C15: tv_power.py exits with status 2 when the connection to the TV fails,
\* with status 3 only when the connection succeeded but the operation failed,
\* and with status 0 exactly when turn_on / turn_off reports success.
Cex_C15_ExitCodes ==
    (pwPc = "exit" /\ pwHasIp) =>
        /\ pwConnected = "failed" => pwExit = 2
        /\ pwExit = 3 => pwConnected = "ok"
        /\ pwExit = 0 <=> pwSuccess

WolDiscipline ==
    pwCommand = "ON" =>
        /\ pwWolTried => pwFirstReach = "no"
        /\ pwWolSent => pwWolTried
        /\ pwPolls <= WolPolls
        /\ pwPolls > 0 => pwWolSent
        /\ pwPollOk => (pwPolls > 0 /\ (pwPc = "connect" \/ pwConnects = 1))
        /\ (pwWolSent /\ pwPolls = WolPolls /\ ~pwPollOk) =>
              /\ pwPc \in {"returned", "exit"}
              /\ ~pwSuccess
              /\ pwMessage = "TV did not respond after Wake-on-LAN"
              /\ pwConnects = 0
        /\ (pwWolSent /\ ~pwPollOk) => pwConnects = 0
        /\ (pwWolTried /\ ~pwWolSent) =>
              /\ pwPolls = 0
              /\ pwPc = "connect" \/ pwConnects = 1

\* C16: turn_on sends a Wake-on-LAN packet only when the first reachability
\* check fails; after a packet it polls at most 30 times and goes to the
\* connection at the first successful poll (no poll follows it); when no poll
\* succeeds it returns failure without a connection attempt; when the packet
\* cannot be sent it goes straight to the connection attempt.
Thm_C16_WakeOnLanPolling ==
    /\ [](WolDiscipline)
    /\ [][(pwPollOk => pwPolls' = pwPolls)
          /\ (pwPc = "wol" /\ ~pwWolSent' => pwPc' = "connect")]_vars

\* Thirty polls went unanswered and turn_on returned failure without connecting.
Wit_C16_NoPollAnswered ==
    /\ pwPc = "exit"
    /\ pwWolSent
    /\ pwPolls = WolPolls
    /\ ~pwPollOk
    /\ pwConnects = 0
    /\ pwExit = 3


(***************************************************************************)
(* C17.  For every holiday range that does not wrap the year boundary      *)
(* (start month <= end month) and every calendar date, is_active returns   *)
(* true if and only if (month, day) lies within                            *)
(* [(start_month, start_day), (end_month, end_day)] inclusive.             *)
(***************************************************************************)
\* (m1, d1) <= (m2, d2) in the order of the calendar
OnOrBefore(m1, d1, m2, d2) == m1 < m2 \/ (m1 = m2 /\ d1 <= d2)

OnOrAfterStart ==
    OnOrBefore(calCfg.start_month, calCfg.start_day, calDate.month, calDate.day)

OnOrBeforeEnd ==
    OnOrBefore(calDate.month, calDate.day, calCfg.end_month, calCfg.end_day)

Thm_C17_ActiveIffWithinRange ==
    (calPc = "done" /\ calCfg.start_month <= calCfg.end_month)
        => (calActive = "True" <=> (OnOrAfterStart /\ OnOrBeforeEnd))

\* the last day of a range inside one month is answered as active
Wit_C17_ActiveOnEndDay ==
    /\ calPc = "done"
    /\ calCfg.start_month = calCfg.end_month
    /\ calCfg.start_day < calCfg.end_day
    /\ calDate.month = calCfg.end_month
    /\ calDate.day = calCfg.end_day
    /\ calActive = "True"

(***************************************************************************)
(* C18.  For every holiday range that wraps the year boundary (start month *)
(* > end month, for any start and end month and day) and every calendar    *)
(* date, is_active returns true if and only if the date falls on or after  *)
(* (start_month, start_day) or on or before (end_month, end_day).          *)
(***************************************************************************)
Cex_C18_WrapActiveIffAfterStartOrBeforeEnd ==
    (calPc = "done" /\ calCfg.start_month > calCfg.end_month)
        => (calActive = "True" <=> (OnOrAfterStart \/ OnOrBeforeEnd))

(***************************************************************************)
(* C19.  For every day of month d in 1..31 the suffix computed by          *)
(* _get_current_season_info is the English ordinal suffix: "st" for 1, 21, *)
(* 31; "nd" for 2, 22; "rd" for 3, 23; "th" for every other day; and the   *)
(* suffix lookup never indexes outside its three-element list.             *)
(***************************************************************************)
EnglishSuffix(day) ==
    CASE day \in {1, 21, 31} -> "st"
      [] day \in {2, 22} -> "nd"
      [] day \in {3, 23} -> "rd"
      [] OTHER -> "th"

Thm_C19_OrdinalSuffix ==
    calPc # "start"
        => /\ calSuffix = EnglishSuffix(calDate.day)
           /\ calIndex # -2 => calIndex \in 0..2

\* the 31st went through the lookup and got "st"
Wit_C19_ThirtyFirst ==
    /\ calPc # "start"
    /\ calDate.day = 31
    /\ calIndex = 0
    /\ calSuffix = "st"

(***************************************************************************)
(* C20.  The weather-code-to-description mapping is total: for every       *)
(* weather code value, including codes absent from WEATHER_CODES and a     *)
(* missing code, the lookup yields the table entry for a known code and    *)
(* the sentinel "Unknown" otherwise, and never raises.                     *)
(***************************************************************************)
KnownCodes ==
    {0, 1, 2, 3, 45, 48, 51, 53, 55, 56, 57, 61, 63, 65, 66, 67,
     71, 73, 75, 77, 80, 81, 82, 85, 86, 95, 96, 99}

WxLookedUp == wxPc = "done" /\ wxOut.kind # "None"

Thm_C20_WeatherLookupTotal ==
    /\ (wxPc = "done" /\ wxOut.condition # "None") => wxOut.kind = "dict"
    /\ WxLookedUp =>
        /\ wxOut.code = wxCode
        /\ IF wxCode.present /\ wxCode.val \in KnownCodes
           THEN wxOut.condition = WEATHER_CODES[wxCode.val]
           ELSE wxOut.condition = "Unknown"

\* a missing code and a code outside the table were both answered "Unknown"
Wit_C20_MissingCodeUnknown ==
    /\ WxLookedUp
    /\ ~wxCode.present
    /\ wxOut.condition = "Unknown"


(***************************************************************************)
(* C29.  The assertion placed after the retry loop ("This code should be   *)
(* unreachable") is never executed: for every max_attempts >= 0 and every  *)
(* behaviour of the wrapped function, the wrapper exits only by returning  *)
(* the function's result or by raising the function's exception.           *)
(***************************************************************************)
Cex_C29_AssertionUnreachable ==
    rPc = "ended" => rOut.kind \in {"return", "raise"}

(***************************************************************************)
(* C30.  In the retry wrapper the sleep between failed attempt k and       *)
(* attempt k+1 is delay * backoff_factor^(k-1); the wrapper never sleeps   *)
(* after a successful attempt nor after the final failed attempt, so a     *)
(* call whose every attempt fails sleeps exactly max_attempts - 1 times,   *)
(* with non-decreasing durations when backoff_factor >= 1.                 *)
(***************************************************************************)
RECURSIVE IntPow(_, _)
IntPow(x, n) == IF n = 0 THEN 1 ELSE x * IntPow(x, n - 1)

\* delay * backoff_factor^(k-1), as a rational <<num, den>>
ExpectedSleep(k) ==
    <<rDelay[1] * IntPow(rBackoff[1], k - 1), rDelay[2] * IntPow(rBackoff[2], k - 1)>>

\* every invocation so far raised an exception the decorator retries on
AllAttemptsFailed ==
    /\ rOut.kind # "return"
    /\ \A i \in 1..Len(rExcs) : IsAllowed(rExcs[i].type)

SleepDiscipline ==
    /\ \A k \in 1..Len(rSleeps) :
         RatEq(rSleeps[k], ExpectedSleep(k))
    \* one sleep between two consecutive attempts, none after the last one
    /\ Len(rSleeps) = IF rPc \in {"loop", "call"} THEN rCalls ELSE rCalls - 1
    /\ rOut.kind = "return" => Len(rSleeps) = Len(rExcs)
    /\ (rPc = "ended" /\ AllAttemptsFailed /\ Len(rExcs) = rMax)
         => Len(rSleeps) = rMax - 1
    /\ RatLeq(<<1, 1>>, rBackoff)
         => \A k \in 1..(Len(rSleeps) - 1) : RatLeq(rSleeps[k], rSleeps[k + 1])

Thm_C30_BackoffSleeps ==
    (rPc # "idle" /\ rMax >= 1) => SleepDiscipline

\* four attempts failed, three sleeps were made, each longer than the last
Wit_C30_ThreeGrowingSleeps ==
    /\ rPc = "ended"
    /\ rMax = 4
    /\ AllAttemptsFailed
    /\ Len(rExcs) = 4
    /\ Len(rSleeps) = 3
    /\ ~RatLeq(rSleeps[3], rSleeps[2])


(***************************************************************************)
(* C23.  set_active_art tries to enter art mode in the order: set_artmode  *)
(* API call (skipped when the TV already reports art mode), then a KEY_ART *)
(* key press only if the API step raised, then a second KEY_ART only if    *)
(* the first key press raised; it sends at most two KEY_ART keys per       *)
(* invocation and proceeds to image selection even when all three steps    *)
(* fail.                                                                   *)
(***************************************************************************)
ArtCmd(cmd, ok) == [cmd |-> cmd, ok |-> ok]

\* the art-mode commands one invocation may have sent, in order
ArtModeSequences ==
    { <<>>,
      <<ArtCmd("set_artmode", TRUE)>>,
      <<ArtCmd("set_artmode", FALSE)>>,
      <<ArtCmd("set_artmode", FALSE), ArtCmd("KEY_ART", TRUE)>>,
      <<ArtCmd("set_artmode", FALSE), ArtCmd("KEY_ART", FALSE)>>,
      <<ArtCmd("set_artmode", FALSE), ArtCmd("KEY_ART", FALSE), ArtCmd("KEY_ART", TRUE)>>,
      <<ArtCmd("set_artmode", FALSE), ArtCmd("KEY_ART", FALSE), ArtCmd("KEY_ART", FALSE)>> }

KeyArtSent == Cardinality({i \in 1..Len(saModeLog) : saModeLog[i].cmd = "KEY_ART"})

AllArtStepsFailed ==
    /\ Len(saModeLog) = 3
    /\ \A i \in 1..3 : ~saModeLog[i].ok

ArtModeOrder ==
    /\ saModeLog \in ArtModeSequences
    /\ KeyArtSent <= 2
    \* art_mode_success is set exactly by a step that did not raise, or by the skip
    /\ (saModeLog # <<>> /\ saPc \notin {"key1", "key2"})
         => (saArtOk <=> saModeLog[Len(saModeLog)].ok)
    \* a step that raised is followed by the next step, the last one by the selection
    /\ saPc = "key1" <=> saModeLog = <<ArtCmd("set_artmode", FALSE)>>
    /\ saPc = "key2" <=> saModeLog = <<ArtCmd("set_artmode", FALSE), ArtCmd("KEY_ART", FALSE)>>
    /\ (AllArtStepsFailed /\ saPc = "done")
         => (saStarted # <<>> /\ saStarted[1] = "primary" /\ saResult \in {"True", "False"})

Thm_C23_ArtModeOrder ==
    saPc # "idle" => ArtModeOrder

\* all three steps raised and the primary select was issued all the same
Wit_C23_SelectedAfterThreeFailures ==
    /\ AllArtStepsFailed
    /\ ~saArtOk
    /\ saStarted # <<>>
    /\ "primary" \in {saStarted[i] : i \in 1..Len(saStarted)}
    /\ saSelCalls.total >= 1


(***************************************************************************)
(* C24.  Last write wins for the persisted content id: after any sequence  *)
(* of uploads through upload_image or DailyArtApp.run whose file writes    *)
(* succeed, the stored id that set_active_art reads (last_uploaded_id.txt  *)
(* when it exists, last_content_id.txt only otherwise) equals the content  *)
(* id of the most recent successful upload.                                *)
(***************************************************************************)
Thm_C24_LastWriteWins ==
    (stUploads > 0 /\ stAllWritten) =>
        /\ fileUploadedId = stLatest
        /\ stReadOk => stRead = stLatest

\* a second upload replaced the id of the first, an older id stayed in
\* last_content_id.txt, and set_active_art read the newer one
Wit_C24_SecondUploadRead ==
    /\ stUploads >= 2
    /\ stAllWritten
    /\ stReadOk
    /\ stRead = stLatest
    /\ fileContentId \notin {None, stLatest}


(***************************************************************************)
(* C27.  main.py exits with status 1 when SAMSUNG_TV_IP is missing or      *)
(* DailyArtApp.run returns False, and with status 0 when run returns True  *)
(* (success or partial success) or when --list-presets is given.           *)
(* As stated, the two halves meet when --list-presets is given without     *)
(* SAMSUNG_TV_IP; the theorem is the statement with the first half         *)
(* limited to command lines without --list-presets.                        *)
(***************************************************************************)
Cex_C27_ExitStatusAsStated ==
    appPc = "exited" =>
        /\ (~appEnv.tv_ip \/ appSuccess = "False") => appExit = 1
        /\ (appSuccess = "True" \/ appArgs.list_presets) => appExit = 0

Thm_C27_ExitStatus ==
    appPc = "exited" =>
        /\ appArgs.list_presets => appExit = 0
        /\ (~appArgs.list_presets /\ ~appEnv.tv_ip) => appExit = 1
        /\ appSuccess = "False" => appExit = 1
        /\ appSuccess = "True" => appExit = 0

\* run went past the enhancement, returned False, and the script exited with 1
Wit_C27_FailedRunExitsOne ==
    /\ appPc = "exited"
    /\ appSuccess = "False"
    /\ Len(appSteps) = 3
    /\ appExit = 1

(***************************************************************************)
(* C28.  In every entry script that accepts an enhancement preset name     *)
(* (main.py --enhance, enhancement_presets.py --presets), a preset name    *)
(* that is not one of the defined presets is invalid input and makes the   *)
(* script exit with status 1 without processing the image further.         *)
(***************************************************************************)
UnknownPresetSeen ==
    \E i \in 1..Len(appSteps) : appSteps[i] = "unknown preset"

Cex_C28_UnknownPresetExitsOne ==
    UnknownPresetSeen =>
        /\ appSteps[Len(appSteps)] = "unknown preset"
        /\ appPc = "exited" => appExit = 1


(***************************************************************************)
(* C21.  Whenever a holiday is active on the prompt date, the generated    *)
(* prompt contains that holiday's prompt modifier, exactly one subject     *)
(* drawn from that holiday's subject list and its palette, and contains    *)
(* neither the indoor still-life block nor the outdoor scene block;        *)
(* whenever no holiday is active the prompt contains exactly one of the    *)
(* indoor or outdoor blocks and no holiday text.                           *)
(***************************************************************************)
\* the holiday of a date, read off the calendar ("": none)
HolidayOn(date) ==
    CASE date.month = 12 /\ date.day \in 10..26 -> "Christmas"
      [] (date.month = 12 /\ date.day = 31) \/ (date.month = 1 /\ date.day = 1) -> "New Year"
      [] date.month = 10 /\ date.day \in 25..31 -> "Halloween"
      [] date.month = 7 /\ date.day = 4 -> "July 4th"
      [] date.month = 2 /\ date.day = 14 -> "Valentine's Day"
      [] OTHER -> ""

\* the positions of the prompt that hold a block of one of the kinds
BlocksOf(kinds) == {i \in 1..Len(prPrompt) : prPrompt[i].kind \in kinds}

HolidayKinds == {"modifier", "subject", "palette"}
SceneKinds == {"indoor", "outdoor"}

SubjectsOf(name) ==
    LET h == CHOOSE i \in 1..Len(HOLIDAYS) : HOLIDAYS[i].name = name
    IN 1..HOLIDAYS[h].subjects

HolidayPrompt(name) ==
    /\ \A i \in BlocksOf(HolidayKinds) : prPrompt[i].of = name
    /\ Cardinality(BlocksOf({"modifier"})) = 1
    /\ Cardinality(BlocksOf({"subject"})) = 1
    /\ \A i \in BlocksOf({"subject"}) : prPrompt[i].n \in SubjectsOf(name)
    /\ Cardinality(BlocksOf({"palette"})) = 1
    /\ BlocksOf(SceneKinds) = {}

SeasonPrompt ==
    /\ Cardinality(BlocksOf(SceneKinds)) = 1
    /\ BlocksOf(HolidayKinds) = {}

Malformed(location) ==
    /\ location.set
    /\ \/ Len(location.parts) # 2
       \/ \E i \in 1..2 : location.parts[i] = "bad"

Thm_C25_MalformedLocationIgnored ==
    Malformed(prLocation) =>
        /\ prLookups = 0
        /\ prModifier = ""
        /\ prPc = "done" => (prPrompt # <<>> /\ BlocksOf({"weather"}) = {})

\* a numeric latitude with a non-numeric longitude: lat was assigned, the
\* prompt was produced all the same
Wit_C25_BadLongitude ==
    /\ prPc = "done"
    /\ prLocation.set
    /\ prLocation.parts = <<"num", "bad">>
    /\ prCoords.lat # None
    /\ prPrompt # <<>>

(***************************************************************************)
(* C26.  The scene type is chosen with season-dependent probability such   *)
(* that in Winter (months 12, 1, 2) the scene type is always outdoor and   *)
(* the indoor branch is never taken, while in Spring, Summer and Autumn    *)
(* both indoor and outdoor remain possible.                                *)
(***************************************************************************)
BothPossible(season) ==
    /\ \E draw \in RandomDraws : SceneType(season, draw) = "indoor"
    /\ \E draw \in RandomDraws : SceneType(season, draw) = "outdoor"

Thm_C26_WinterAlwaysOutdoor ==
    /\ (prDate.month \in {12, 1, 2} /\ prPc \in {"compose", "done"})
         => (prScene = "outdoor" /\ BlocksOf({"indoor"}) = {})
    /\ \A season \in {"Spring", "Summer", "Autumn"} : BothPossible(season)

\* a winter day without a holiday: the largest draw still gave an outdoor scene
Wit_C26_WinterOutdoorPrompt ==
    /\ prPc = "done"
    /\ prDate = [month |-> 1, day |-> 15]
    /\ prScene = "outdoor"
    /\ BlocksOf({"outdoor"}) # {}


(***************************************************************************)
(* C22.  apply_enhancement applies a processing step only when its         *)
(* parameter differs from neutral (upscale_factor > 1.0; brightness,       *)
(* color, contrast, sharpness different from 1.0; unsharp_mask true);      *)
(* hence with the "original" preset no step is applied and the result      *)
(* equals the input image, and applying the "original" preset any number   *)
(* of times is the identity.                                               *)
(***************************************************************************)
\* the number of steps of kind op among the steps applied so far
StepsOf(op) ==
    Cardinality({i \in 1..Len(enImage.steps) : enImage.steps[i].op = op})

\* every application applied the step, or none did
AppliedIff(op, due) == StepsOf(op) = IF due THEN enCalls ELSE 0

Thm_C22_NeutralParametersSkipSteps ==
    enPc = "apply" =>
        /\ AppliedIff("resize", enParams.upscale_factor > 10)
        /\ AppliedIff("brightness", enParams.brightness # 10)
        /\ AppliedIff("color", enParams.color # 10)
        /\ AppliedIff("contrast", enParams.contrast # 10)
        /\ AppliedIff("sharpness", enParams.sharpness # 10)
        /\ AppliedIff("unsharp", enParams.unsharp_mask)
        /\ enParams = OriginalPreset => enImage = enInput

\* the "original" preset applied twice left the image as it was loaded
Wit_C22_OriginalAppliedTwice ==
    /\ enPc = "apply"
    /\ enParams = OriginalPreset
    /\ enCalls = 2
    /\ enImage = enInput


(***************************************************************************)
(* C39.  On every calendar date at most one holiday of HOLIDAYS is active, *)
(* so the holiday that _get_current_season_info selects (the first active  *)
(* one of the list) is the only active one and does not depend on the      *)
(* order of the list.                                                      *)
(***************************************************************************)
\* the holidays of HOLIDAYS that are active on the prompt date
ActiveHolidays == {i \in 1..Len(HOLIDAYS) : IsActive(HOLIDAYS[i], prDate)}

Thm_C39_AtMostOneHolidayActive ==
    /\ Cardinality(ActiveHolidays) <= 1
    /\ prPc \notin {"idle", "start"} =>
          /\ \A i \in ActiveHolidays : prInfo.holiday = i
          /\ ActiveHolidays = {} => prInfo.holiday = 0

\* New Year's Eve, the day after which the wrapping range begins its second
\* half and the month Christmas lies in: New Year was selected
Wit_C39_NewYearsEveSelected ==
    /\ prPc = "done"
    /\ prDate = [month |-> 12, day |-> 31]
    /\ prInfo.holiday # 0
    /\ HOLIDAYS[prInfo.holiday].name = "New Year"
    /\ ActiveHolidays = {prInfo.holiday}


(***************************************************************************)
(* C38.  For every code of WEATHER_CODES that stands in the code list of a *)
(* branch of get_weather_prompt_modifier (0 clear; 2, 3 cloudy; 45, 48     *)
(* fog; 51, 53, 55, 61, 63, 65, 80, 81, 82 rain; 71, 73, 75, 77, 85, 86    *)
(* snow; 95, 96, 99 thunder) the modifier returned for the record of that  *)
(* code is an entry of that branch's list; for the condition "Unknown"     *)
(* the modifier is the empty string.                                       *)
(***************************************************************************)
\* the list each code stands in, read off the code lists of lines 151-162
ListOfCode(c) ==
    CASE c \in {0} -> "clear"
      [] c \in {2, 3} -> "cloudy"
      [] c \in {45, 48} -> "fog"
      [] c \in {51, 53, 55, 61, 63, 65, 80, 81, 82} -> "rain"
      [] c \in {71, 73, 75, 77, 85, 86} -> "snow"
      [] c \in {95, 96, 99} -> "thunder"
      [] OTHER -> ""

ModifierReturned == mdPc = "done" /\ mdData.kind = "dict"

Cex_C38_ModifierFromListOfCode ==
    ModifierReturned =>
       /\ (mdData.code.present /\ ListOfCode(mdData.code.val) # "") =>
             /\ mdOut.list = ListOfCode(mdData.code.val)
             /\ mdOut.entry \in 1..ModifiersPerList
       /\ mdData.condition = "Unknown" => mdOut = NoModifier


(***************************************************************************)
(* C31.  Every call of upload_image terminates, by returning a content ID  *)
(* or None or by raising, and starts the TV upload operation at most 24    *)
(* times: at most 3 attempts per execution of the body and at most 8       *)
(* executions of the body; it returns None without contacting the TV when  *)
(* the file does not exist.                                                *)
(*                                                                         *)
(* Termination is stated with a measure: every step of the main thread     *)
(* strictly decreases UpRank, which is a natural number, and as long as    *)
(* the call has not ended a step of the main thread or of a worker thread  *)
(* is possible; a step of a worker thread ends that thread.                *)
(***************************************************************************)
\* the steps of the thread that called upload_image
UpMainStep ==
    \/ UpStartMissing
    \/ UpSetup
    \/ UpAttemptStart
    \/ UpJoinResult
    \/ UpJoinException
    \/ UpJoinTimeout
    \/ UpReset
    \/ UpNoContentId
    \/ UpSuccess

\* the steps the main thread has left at most, counted from the limits the
\* claim names: 8 executions of the body of 3 attempts each
UpRank ==
    CASE upPc \in {"ended", "idle"} -> 0
      [] upPc = "start" -> 12 * (8 - upBodyRuns)
      [] OTHER ->
           12 * (8 - upBodyRuns) + 3 * (3 - upAttempt)
           + (CASE upPc = "join" -> 3 [] upPc = "reset" -> 2 [] OTHER -> 1)

UpBounded ==
    /\ upCalls <= 24
    /\ upAttempt <= 3
    /\ upBodyRuns <= 8
    /\ upCalls <= 3 * upBodyRuns
    /\ UpRank \in 0..96
    /\ upPc = "ended" =>
          /\ upOut.kind \in {"return", "raise"}
          /\ ~upExists => (upOut = [kind |-> "return", val |-> None] /\ upCalls = 0)
    /\ upPc \notin {"ended", "idle"} => (ENABLED UpMainStep \/ upRunning # {})

Thm_C31_UploadTerminatesWithin24 ==
    /\ []UpBounded
    /\ [][UpMainStep => UpRank' < UpRank]_vars
    /\ [][(~UpMainStep) => Cardinality(upRunning') < Cardinality(upRunning)]_vars

\* all 8 executions of the body made all 3 attempts, and the call raised
Wit_C31_AllAttemptsUsed ==
    /\ upPc = "ended"
    /\ upOut.kind = "raise"
    /\ upBodyRuns = 8
    /\ upCalls = 24


(***************************************************************************)
(* C32.  upload_image returns, and writes to the content-ID files, only a  *)
(* content ID that a TV upload call of this invocation returned; it never  *)
(* returns the ID of content that was on the TV before the invocation.     *)
(***************************************************************************)
\* "idNew" is what art().upload returns; "idOld" is the content_id of the
\* first item of the TV's content list, content that was there before
Cex_C32_OnlyUploadedIdReturned ==
    /\ (upPc = "ended" /\ upOut.kind = "return") => upOut.val \in {None, "idNew"}
    /\ fileUploadedId # "idOld"
    /\ fileContentId # "idOld"


(***************************************************************************)
(* C33.  For every file size an upload attempt of upload_image may run for *)
(* at least the dynamic timeout, max(300, 5 * expected_seconds) seconds    *)
(* with expected_seconds the size in MiB, before it is treated as timed    *)
(* out; in particular an upload that progresses at the assumed 1 MiB/s is  *)
(* never abandoned as timed out.                                           *)
(***************************************************************************)
\* the dynamic timeout, from the words of the comment of lines 414-415
FiveTimesExpectedMin300(mib) == IF 5 * mib > 300 THEN 5 * mib ELSE 300

AttemptTimedOut == dlPc = "joined" /\ dlOutcome = "UploadTimeoutError"

Cex_C33_AttemptRunsForDynamicTimeout ==
    AttemptTimedOut =>
       /\ dlNeeds >= FiveTimesExpectedMin300(dlMiB)
       /\ dlRate # 1


(***************************************************************************)
(* C35.  _get_art_mode_status returns True only when the TV's response     *)
(* says that art mode is on, False only when it says that art mode is off, *)
(* and None when the status cannot be determined, for every response shape *)
(* it handles: a bool, a dict with 'artmode', a dict with data.value, any  *)
(* other value, an exception.                                              *)
(***************************************************************************)
\* what a response says, for the shapes with a status in them
SaysOn(r) == r.shape \in {"bool", "artmode", "data.value"} /\ r.value \in {"True", "on"}
SaysOff(r) == r.shape \in {"bool", "artmode", "data.value"} /\ r.value \in {"False", "off"}

\* error -7 is answered with True ("likely already in art mode"): taken
\* here as a response that says on
Cex_C35_StatusFollowsResponse ==
    pwArt # "unset" =>
       /\ pwArt = "True" => (SaysOn(pwResponse) \/ pwResponse.shape = "raise -7")
       /\ pwArt = "False" => SaysOff(pwResponse)
       /\ pwArt = "None" => (~SaysOn(pwResponse) /\ ~SaysOff(pwResponse))

(***************************************************************************)
(* C36.  When the TV is reachable and reports art mode on, turn_on sends   *)
(* no command (no Wake-on-LAN packet, no set_artmode, no power toggle) and *)
(* returns success; in every run of turn_on a power toggle is sent only    *)
(* when the reachability check just before it failed.                      *)
(***************************************************************************)
PwEnded == pwPc \in {"returned", "exit"} /\ pwHasIp

\* the commands of the log, the reachability checks left out
CommandsSent == {i \in DOMAIN pwLog : pwLog[i].cmd # "reach"}

Thm_C36_NoCommandWhenInArtMode ==
    pwCommand = "ON" =>
       /\ (PwEnded /\ pwFirstReach = "yes" /\ SaysOn(pwResponse)) =>
             /\ CommandsSent = {}
             /\ ~pwWolTried /\ ~pwWolSent
             /\ pwSuccess
       /\ \A i \in DOMAIN pwLog :
             pwLog[i].cmd = "power" =>
                (i > 1 /\ pwLog[i - 1] = [cmd |-> "reach", ok |-> FALSE])

Wit_C36_ReachableInArtMode ==
    /\ pwCommand = "ON"
    /\ PwEnded
    /\ pwFirstReach = "yes"
    /\ pwResponse = [shape |-> "data.value", value |-> "on"]
    /\ pwLog = <<[cmd |-> "reach", ok |-> TRUE]>>
    /\ pwSuccess

(***************************************************************************)
(* C37.  turn_off returns success without opening a session when the TV   *)
(* is unreachable; otherwise it reports failure only if the connection     *)
(* fails or both KEY_POWER and the fallback power command raise; the       *)
(* fallback is sent only after KEY_POWER raised, so at most one power      *)
(* command goes through per turn_off.                                      *)
(***************************************************************************)
PowerCommands == {i \in DOMAIN pwLog : pwLog[i].cmd \in {"KEY_POWER", "power"}}

Thm_C37_TurnOffOutcome ==
    pwCommand = "OFF" =>
       /\ (PwEnded /\ pwFirstReach = "no") =>
             /\ pwSuccess
             /\ pwConnects = 0
             /\ CommandsSent = {}
       /\ (PwEnded /\ pwFirstReach = "yes" /\ ~pwSuccess) =>
             \/ pwConnected = "failed"
             \/ /\ pwConnected = "ok"
                /\ \E i, j \in PowerCommands :
                      /\ pwLog[i] = [cmd |-> "KEY_POWER", ok |-> FALSE]
                      /\ pwLog[j] = [cmd |-> "power", ok |-> FALSE]
       /\ \A i \in DOMAIN pwLog :
             pwLog[i].cmd = "power" =>
                (i > 1 /\ pwLog[i - 1] = [cmd |-> "KEY_POWER", ok |-> FALSE])
       /\ Cardinality({i \in PowerCommands : pwLog[i].ok}) <= 1
       /\ CommandsSent = PowerCommands

Wit_C37_FallbackWentThrough ==
    /\ pwCommand = "OFF"
    /\ PwEnded
    /\ pwSuccess
    /\ \E i \in PowerCommands : pwLog[i] = [cmd |-> "KEY_POWER", ok |-> FALSE]
    /\ \E i \in PowerCommands : pwLog[i] = [cmd |-> "power", ok |-> TRUE]


(***************************************************************************)
(* C40.  In the content-list fallback of set_active_art the target is the  *)
(* passed content ID if the TV's content list has it, otherwise the stored *)
(* ID if the list has it, otherwise the first item of the list; the        *)
(* fallback issues no select when the list is empty; and every select      *)
(* issued anywhere in set_active_art carries the passed ID, the stored ID  *)
(* or the first item of the list.                                          *)
(***************************************************************************)
\* the ids of the items of content_list
ListedIds == {saList[i] : i \in 1..Len(saList)}

\* the target the statement names, for a list that is not empty
StatedTarget ==
    IF saContentId \in ListedIds THEN saContentId
    ELSE IF saStoredId \notin {None, ""} /\ saStoredId \in ListedIds THEN saStoredId
    ELSE saList[1]

\* a select is issued in this step
SelectIssued == saSelCalls'.total # saSelCalls.total

TargetAsStated ==
    saPc = "listsel" => (saList # <<>> /\ saTarget = StatedTarget)

SelectAsStated ==
    SelectIssued =>
       /\ saSelCalls'.id \in {saContentId, saStoredId}
                               \cup (IF saList = <<>> THEN {} ELSE {saList[1]})
       /\ saSelCalls'.id \notin {None, ""}
       /\ saSelCalls'.strategy = "list" =>
             (saList # <<>> /\ saSelCalls'.id = StatedTarget)

Thm_C40_ListFallbackTarget ==
    /\ []TargetAsStated
    /\ [][SelectAsStated]_vars

\* neither the passed nor the stored id is listed: the first item was selected
Wit_C40_FirstItemSelected ==
    /\ saSelCalls.strategy = "list"
    /\ saList # <<>>
    /\ saSelCalls.id = saList[1]
    /\ saContentId \notin ListedIds
    /\ saStoredId \notin ListedIds
    /\ saResult = "True"


(***************************************************************************)
(* C34.  The temporary timeout patch is always undone: after each          *)
(* execution of upload_image's body (return or raise), after turn_on /     *)
(* turn_off return on any path and after a websocket_timeout_patch block   *)
(* is left, socket.socket.settimeout is the function it was before and     *)
(* the TV object's timeout attribute has its former value; the patch is    *)
(* never left installed and never stacked on itself.                       *)
(*                                                                         *)
(* Each operation does put back what it found (PatchUndoneByEachOperation  *)
(* holds), but the patch is left installed by the direct _connect_to_tv    *)
(* of dev/test_tv_power.py, and the turn_on that follows stacks a second   *)
(* controller patch on it.                                                 *)
(***************************************************************************)
\* a frame ends in this step
FrameLeft == Len(ptStack') < Len(ptStack)

\* the frames that have a patch installed
PatchingFrames == {i \in DOMAIN ptStack : ptStack[i].applied}

PatchUndone ==
    FrameLeft =>
       /\ ptSettimeout' = Top.before
       /\ ptTvTimeout' = Top.tvBefore

PatchUndoneByEachOperation == [][PatchUndone]_vars

\* the same patch occurs twice in the function that is installed
StackedOnItself ==
    \E i, j \in DOMAIN ptSettimeout : i < j /\ ptSettimeout[i] = ptSettimeout[j]

NothingLeftInstalled ==
    /\ Len(ptSettimeout) = Cardinality(PatchingFrames)
    /\ ptStack = <<>> =>
          /\ ptSettimeout = <<>>
          /\ ptTvTimeout = "original"
          /\ ~ptApplied

Cex_C34_PatchNeverLeftNorStacked ==
    /\ NothingLeftInstalled
    /\ ~StackedOnItself

====
